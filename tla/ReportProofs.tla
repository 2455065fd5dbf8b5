---------------------------- MODULE ReportProofs ----------------------------
(***************************************************************************)
(* Proofs about what the runs of Backfill report: the rows they count as   *)
(* inserted or skipped, and the date they give as last synced.             *)
(***************************************************************************)
EXTENDS BackfillProofs

USE DEF NoDate

(* What finalizeSuccess does to a report.                                  *)
LEMMA FinalizeReports ==
    ASSUME NEW rec \in RunState
    PROVE  /\ FinalizeSuccess(rec).inserted = rec.inserted
           /\ FinalizeSuccess(rec).skipped = rec.skipped
           /\ FinalizeSuccess(rec).maxSeen = rec.maxSeen
           /\ FinalizeSuccess(rec).pc = "done"
           /\ FinalizeSuccess(rec).status \in {"success", "empty"}
           /\ FinalizeSuccess(rec).lastSyncedAfter
                 = MaxDate(rec.lastSyncedAfter, rec.maxSeen)
BY DEF FinalizeSuccess, Return, RunState

(* What the foot of the window loop does to a report.                      *)
LEMMA NextWindowReports ==
    ASSUME NEW rec \in RunState
    PROVE  /\ NextWindow(rec).inserted = rec.inserted
           /\ NextWindow(rec).skipped = rec.skipped
           /\ NextWindow(rec).maxSeen = rec.maxSeen
           /\ \/ /\ NextWindow(rec).pc = "done"
                 /\ NextWindow(rec).status \in {"success", "empty"}
                 /\ NextWindow(rec).lastSyncedAfter
                       = MaxDate(rec.lastSyncedAfter, rec.maxSeen)
              \/ /\ rec.upto # NoDate
                 /\ NextWindow(rec).pc = "windowing"
                 /\ NextWindow(rec).cursor = rec.upto
                 /\ NextWindow(rec).status = rec.status
                 /\ NextWindow(rec).lastSyncedAfter = rec.lastSyncedAfter
<1>1. CASE rec.upto = NoDate \/ rec.upto >= rec.horizon
  BY <1>1, FinalizeReports DEF NextWindow
<1>2. CASE ~ (rec.upto = NoDate \/ rec.upto >= rec.horizon)
  BY <1>2 DEF NextWindow, RunState
<1> QED  BY <1>1, <1>2

LEMMA ClassifyReports ==
    ASSUME NEW rec \in RunState, NEW e
    PROVE  /\ ClassifyFetchError(rec, e).inserted = rec.inserted
           /\ ClassifyFetchError(rec, e).skipped = rec.skipped
           /\ e # "unavailable" => ClassifyFetchError(rec, e).status = "error"
BY DEF ClassifyFetchError, Return, RunState

(* What an answer makes of the run that asked.                             *)
LEMMA FetchedRun ==
    ASSUME TypeOK, NEW r \in Runs, FetchRecords(r)
    PROVE  \E newest, f \in Nat, valid \in SUBSET Observation :
              LET seen == [run[r] EXCEPT
                              !.batch = valid, !.fetched = f,
                              !.maxSeen = MaxDate(run[r].maxSeen, newest)]
              IN  /\ valid = {o \in Fetched(run[r].after, run[r].upto) : Storable(o)}
                  /\ IsLatestDate(newest, valid)
                  /\ seen \in RunState
                  /\ run'[r] = IF valid = {} THEN NextWindow(seen)
                               ELSE [seen EXCEPT !.pc = "storing"]
<1> DEFINE records == Fetched(run[r].after, run[r].upto)
           valid   == {o \in records : Storable(o)}
           f       == run[r].fetched + Cardinality(records)
<1>1. run[r] \in RunState
  BY DEF TypeOK
<1>2. records \subseteq Published /\ valid \in SUBSET Observation
  BY PublishedType DEF Fetched
<1>3. f \in Nat
  <2>1. Cardinality(records) \in Nat
    BY <1>2, PublishedFinite, FS_Subset, FS_CardinalityType
  <2> QED  BY <1>1, <2>1 DEF RunState
<1>4. PICK newest \in {o.date : o \in valid} \cup {NoDate} :
          LET seen == [run[r] EXCEPT
                          !.batch = valid, !.fetched = f,
                          !.maxSeen = MaxDate(run[r].maxSeen, newest)]
          IN  /\ IsLatestDate(newest, valid)
              /\ run'[r] = IF valid = {} THEN NextWindow(seen)
                           ELSE [seen EXCEPT !.pc = "storing"]
  BY DEF FetchRecords, Become, TypeOK
<1>5. newest \in Nat
  BY <1>2 DEF Observation
<1> HIDE DEF valid, f
<1>6. [run[r] EXCEPT !.batch = valid, !.fetched = f,
                     !.maxSeen = MaxDate(run[r].maxSeen, newest)] \in RunState
  <2>1. \A b \in SUBSET Observation : \A k, m \in Nat :
            [run[r] EXCEPT !.batch = b, !.fetched = k, !.maxSeen = m] \in RunState
    BY <1>1 DEF RunState
  <2>2. MaxDate(run[r].maxSeen, newest) \in Nat
    BY <1>1, <1>5 DEF RunState, MaxDate
  <2> QED  BY <1>2, <1>3, <2>1, <2>2
<1>7. valid = {o \in Fetched(run[r].after, run[r].upto) : Storable(o)}
  BY DEF valid
<1> QED  BY <1>2, <1>3, <1>4, <1>5, <1>6, <1>7

(* A step of a run other than a commit it is told of leaves its counts as  *)
(* they are, or takes them with the process.  The table grows then only    *)
(* by a commit that is reported as an error or not at all.                 *)
LEMMA CountsKept ==
    ASSUME TypeOK, NEW r \in Runs, RunOK(r),
           \/ Launch(r) \/ Cancel(r) \/ Crash(r) \/ (Progress(r) /\ ~ StoreBatch(r))
    PROVE  /\ \/ run'[r].inserted = run[r].inserted /\ run'[r].skipped = run[r].skipped
              \/ /\ run'[r].pc = "crashed"
                 /\ run'[r].inserted = 0 /\ run'[r].skipped = 0
           /\ rates \subseteq rates' /\ IsFiniteSet(rates' \ rates)
           /\ \/ rates' = rates
              \/ run'[r].pc = "crashed" \/ run'[r].status = "error"
           /\ run[r].pc # "crashed" /\ run[r].status # "error"
<1>1. run[r] \in RunState
  BY DEF TypeOK
<1>2. \A rec : Become(r, rec) => run'[r] = rec
  BY DEF Become, TypeOK
<1>3. run[r].pc \in LivePcs \cup {"idle"}
  BY DEF LivePcs, Live, Launch, Cancel, Crash, Progress, LoadLastSynced, LoadFails,
         Plan, StartFetch, OpenWindow, StopAtWindow, FetchRecords, RetryFetch,
         GiveUp, BackoffElapsed, BackoffCancelled, StoreFails
<1>4. run[r].pc # "crashed" /\ run[r].status # "error"
  BY <1>3 DEF RunOK, LivePcs
<1> DEFINE Table == rates \subseteq rates' /\ IsFiniteSet(rates' \ rates)
<1>a. rates' = rates => Table
  BY FS_EmptySet
<1>b. StoreFails(r) \/ Crash(r) => Table
  <2> SUFFICES ASSUME StoreFails(r) \/ Crash(r) PROVE Table
    OBVIOUS
  <2>1. PICK new \in {{}, NewRows(run[r].batch)} :
            /\ rates' = rates \cup new
            /\ run[r].pc # "storing" => new = {}
    BY DEF StoreFails, Crash
  <2>2. IsFiniteSet(new)
    BY <2>1, FS_EmptySet, FS_Subset DEF RunOK, BatchOK, NewRows
  <2> QED  BY <2>1, <2>2, FS_Subset
<1> HIDE DEF Table
<1>5. CASE \/ Launch(r) \/ LoadLastSynced(r) \/ LoadFails(r) \/ Plan(r)
           \/ OpenWindow(r) \/ RetryFetch(r) \/ BackoffElapsed(r) \/ Cancel(r)
  <2>1. rates' = rates
    BY <1>5 DEF Launch, LoadLastSynced, LoadFails, Plan, OpenWindow, RetryFetch,
                BackoffElapsed, Cancel
  <2>2. run'[r].inserted = run[r].inserted /\ run'[r].skipped = run[r].skipped
    BY <1>1, <1>2, <1>5 DEF Launch, LoadLastSynced, LoadFails, Plan, OpenWindow,
                RetryFetch, BackoffElapsed, Cancel, RunState
  <2> QED  BY <1>4, <1>a, <2>1, <2>2 DEF Table
<1>6. CASE StartFetch(r)
  <2>1. rates' = rates
    BY <1>6 DEF StartFetch
  <2>2. run'[r].inserted = run[r].inserted /\ run'[r].skipped = run[r].skipped
    <3> DEFINE read == [run[r] EXCEPT !.horizon = today]
    <3>1. /\ read \in RunState
          /\ read.inserted = run[r].inserted /\ read.skipped = run[r].skipped
      BY <1>1 DEF RunState, TypeOK
    <3>2. \/ run'[r] = FinalizeSuccess(read)
          \/ run'[r] = [run[r] EXCEPT !.pc = "windowing", !.horizon = today]
      BY <1>2, <1>6 DEF StartFetch
    <3> HIDE DEF read
    <3> QED  BY <1>1, <3>1, <3>2, FinalizeReports DEF RunState
  <2> QED  BY <1>4, <1>a, <2>1, <2>2 DEF Table
<1>7. CASE StopAtWindow(r) \/ GiveUp(r) \/ BackoffCancelled(r)
  <2>1. rates' = rates
    BY <1>7 DEF StopAtWindow, GiveUp, BackoffCancelled
  <2>2. \E e : run'[r] = ClassifyFetchError(run[r], e)
    BY <1>2, <1>7 DEF StopAtWindow, GiveUp, BackoffCancelled
  <2> QED  BY <1>1, <1>4, <1>a, <2>1, <2>2, ClassifyReports DEF Table
<1>8. CASE StoreFails(r)
  <2>1. run'[r] = ClassifyFetchError(run[r],
                      IF run[r].cancelled THEN "cancelled" ELSE "database")
    BY <1>2, <1>8 DEF StoreFails
  <2> QED  BY <1>1, <1>4, <1>b, <1>8, <2>1, ClassifyReports DEF Table
<1>9. CASE Crash(r)
  <2>1. run'[r] = [NewRun EXCEPT !.pc = "crashed"]
    BY <1>2, <1>9 DEF Crash
  <2> QED  BY <1>4, <1>b, <1>9, <2>1 DEF NewRun, Table
<1>10. CASE FetchRecords(r)
  <2>1. rates' = rates /\ TypeOK'
    BY <1>10, FetchRecordsType DEF FetchRecords
  <2>2. PICK seen \in RunState :
            /\ \/ run'[r] = NextWindow(seen)
               \/ run'[r] = [seen EXCEPT !.pc = "storing"]
            /\ seen.inserted = run[r].inserted /\ seen.skipped = run[r].skipped
    <3>1. PICK newest, f \in Nat, valid \in SUBSET Observation :
              LET seen == [run[r] EXCEPT
                              !.batch = valid, !.fetched = f,
                              !.maxSeen = MaxDate(run[r].maxSeen, newest)]
              IN  /\ seen \in RunState
                  /\ run'[r] = IF valid = {} THEN NextWindow(seen)
                               ELSE [seen EXCEPT !.pc = "storing"]
      BY <1>10, FetchedRun
    <3> DEFINE seen == [run[r] EXCEPT
                          !.batch = valid, !.fetched = f,
                          !.maxSeen = MaxDate(run[r].maxSeen, newest)]
    <3>2. seen.inserted = run[r].inserted /\ seen.skipped = run[r].skipped
      BY <1>1 DEF RunState
    <3>3. seen \in RunState
      BY <3>1
    <3>4. \/ run'[r] = NextWindow(seen)
          \/ run'[r] = [seen EXCEPT !.pc = "storing"]
      BY <3>1
    <3> HIDE DEF seen
    <3> QED  BY <3>2, <3>3, <3>4
  <2>4. run'[r].inserted = run[r].inserted /\ run'[r].skipped = run[r].skipped
    BY <2>2, NextWindowReports DEF RunState
  <2> QED  BY <1>4, <1>a, <2>1, <2>4 DEF Table
<1> QED  BY <1>5, <1>6, <1>7, <1>8, <1>9, <1>10 DEF Progress

(* A commit a run is told of: it counts the rows it adds.                  *)
LEMMA StoredRun ==
    ASSUME TypeOK, NEW r \in Runs, RunOK(r), StoreBatch(r)
    PROVE  LET new  == NewRows(run[r].batch)
               told == [run[r] EXCEPT
                           !.inserted = run[r].inserted + Cardinality(new),
                           !.skipped = run[r].skipped
                                          + Cardinality(run[r].batch \ new)]
           IN  /\ rates' = rates \cup new
               /\ new \cap rates = {}
               /\ IsFiniteSet(new)
               /\ run[r].pc = "storing" /\ run[r].status = "none"
               /\ told \in RunState
               /\ run'[r] = NextWindow(told)
<1> DEFINE new  == NewRows(run[r].batch)
           more == run[r].inserted + Cardinality(new)
           same == run[r].skipped + Cardinality(run[r].batch \ new)
<1>1. run[r] \in RunState /\ run[r].pc = "storing" /\ run[r].status = "none"
  BY DEF StoreBatch, TypeOK, RunOK, LivePcs
<1>2. new \cap rates = {}
  BY DEF NewRows, HasKey, SameKey
<1>3. IsFiniteSet(new) /\ IsFiniteSet(run[r].batch \ new)
  BY <1>1, FS_Subset DEF RunOK, BatchOK, NewRows
<1>4. rates' = rates \cup new
      /\ run'[r] = NextWindow([run[r] EXCEPT !.inserted = more, !.skipped = same])
  BY DEF StoreBatch, Become, TypeOK
<1>5. more \in Nat /\ same \in Nat
  <2>1. Cardinality(new) \in Nat /\ Cardinality(run[r].batch \ new) \in Nat
    BY <1>3, FS_CardinalityType
  <2> QED  BY <1>1, <2>1 DEF RunState
<1> HIDE DEF more, same
<1>6. [run[r] EXCEPT !.inserted = more, !.skipped = same] \in RunState
  <2>1. \A i, k \in Nat : [run[r] EXCEPT !.inserted = i, !.skipped = k] \in RunState
    BY <1>1 DEF RunState
  <2> QED  BY <1>5, <2>1
<1> QED  BY <1>1, <1>2, <1>3, <1>4, <1>6 DEF more, same

-----------------------------------------------------------------------------
(* The rows the runs count.                                                *)
Accounted == IsFiniteSet(rates) /\ RowsAccounted

NoneFailed == \A r \in Runs : run[r].pc # "crashed" /\ run[r].status # "error"

(* A run's count grows by the rows that were not in the table yet.         *)
LEMMA CommitAccounted ==
    ASSUME IInv, Accounted, NEW r \in Runs, StoreBatch(r)
    PROVE  Accounted'
<1> DEFINE new == NewRows(run[r].batch)
<1>1. /\ rates' = rates \cup new /\ new \cap rates = {} /\ IsFiniteSet(new)
      /\ run[r].pc = "storing" /\ run[r].status = "none"
      /\ run'[r].inserted = run[r].inserted + Cardinality(new)
  <2>1. RunOK(r) /\ TypeOK
    BY DEF IInv
  <2> DEFINE told == [run[r] EXCEPT
                         !.inserted = run[r].inserted + Cardinality(new),
                         !.skipped = run[r].skipped
                                        + Cardinality(run[r].batch \ new)]
  <2>2. /\ rates' = rates \cup new /\ new \cap rates = {} /\ IsFiniteSet(new)
        /\ run[r].pc = "storing" /\ run[r].status = "none"
        /\ told \in RunState /\ run'[r] = NextWindow(told)
    BY <2>1, StoredRun
  <2>3. told.inserted = run[r].inserted + Cardinality(new)
    BY <2>1 DEF TypeOK, RunState
  <2> HIDE DEF told, new
  <2> QED  BY <2>2, <2>3, NextWindowReports
<1>2. \A s \in Runs \ {r} : run'[s] = run[s]
  BY DEF StoreBatch, Become, IInv, TypeOK
<1>3. IsFiniteSet(rates')
  BY <1>1, FS_Union DEF Accounted
<1>4. PICK counts \in [Runs -> SUBSET rates] :
          /\ \A s \in Runs : run[s].inserted = Cardinality(counts[s])
          /\ \A s, t \in Runs : s # t => counts[s] \cap counts[t] = {}
          /\ NoneFailed => \A row \in rates : \E s \in Runs : row \in counts[s]
  BY DEF Accounted, RowsAccounted, NoneFailed
<1> DEFINE more == [counts EXCEPT ![r] = @ \cup new]
<1> HIDE DEF new
<1>5. more \in [Runs -> SUBSET rates']
  BY <1>1
<1>6. Cardinality(more[r]) = Cardinality(counts[r]) + Cardinality(new)
  <2>1. IsFiniteSet(counts[r])
    BY FS_Subset DEF Accounted
  <2>2. counts[r] \cap new = {}
    BY <1>1
  <2>3. Cardinality(counts[r] \cup new)
            = Cardinality(counts[r]) + Cardinality(new) - Cardinality(counts[r] \cap new)
    BY <1>1, <2>1, FS_Union
  <2>4. Cardinality(counts[r]) \in Nat /\ Cardinality(new) \in Nat
    BY <1>1, <2>1, FS_CardinalityType
  <2>5. Cardinality(counts[r] \cap new) = 0
    BY <2>2, FS_EmptySet
  <2>6. more[r] = counts[r] \cup new
    OBVIOUS
  <2> HIDE DEF more
  <2> QED  BY <2>3, <2>4, <2>5, <2>6
<1>7. \A s \in Runs : run'[s].inserted = Cardinality(more[s])
  BY <1>1, <1>2, <1>4, <1>6
<1>8. \A s, t \in Runs : s # t => more[s] \cap more[t] = {}
  <2>1. \A s \in Runs : counts[s] \cap new = {}
    BY <1>1
  <2> QED  BY <1>4, <2>1
<1>9. NoneFailed' => \A row \in rates' : \E s \in Runs : row \in more[s]
  <2> SUFFICES ASSUME NoneFailed', NEW row \in rates'
               PROVE  \E s \in Runs : row \in more[s]
    OBVIOUS
  <2>1. NoneFailed
    BY <1>1, <1>2 DEF NoneFailed
  <2>2. CASE row \in rates
    BY <1>4, <2>1, <2>2
  <2>3. CASE row \in new
    BY <2>3
  <2> QED  BY <1>1, <2>2, <2>3
<1> HIDE DEF more
<1>10. RowsAccounted'
  BY <1>5, <1>7, <1>8, <1>9 DEF RowsAccounted, NoneFailed
<1> QED  BY <1>3, <1>10 DEF Accounted

(* The other steps of a run leave its rows to it, or to nobody.            *)
LEMMA OtherAccounted ==
    ASSUME IInv, Accounted, NEW r \in Runs,
           \/ Launch(r) \/ Cancel(r) \/ Crash(r) \/ (Progress(r) /\ ~ StoreBatch(r))
    PROVE  Accounted'
<1>1. /\ \/ run'[r].inserted = run[r].inserted
         \/ run'[r].pc = "crashed" /\ run'[r].inserted = 0
      /\ rates \subseteq rates' /\ IsFiniteSet(rates' \ rates)
      /\ rates' = rates \/ run'[r].pc = "crashed" \/ run'[r].status = "error"
      /\ run[r].pc # "crashed" /\ run[r].status # "error"
  BY CountsKept DEF IInv
<1>2. \A s \in Runs \ {r} : run'[s] = run[s]
  <2>1. TypeOK'
    BY NextIInv DEF IInv, Next
  <2> QED  BY <2>1, RunStep DEF IInv
<1>3. IsFiniteSet(rates')
  <2>1. rates' = rates \cup (rates' \ rates)
    BY <1>1
  <2> QED  BY <1>1, <2>1, FS_Union DEF Accounted
<1>4. PICK counts \in [Runs -> SUBSET rates] :
          /\ \A s \in Runs : run[s].inserted = Cardinality(counts[s])
          /\ \A s, t \in Runs : s # t => counts[s] \cap counts[t] = {}
          /\ NoneFailed => \A row \in rates : \E s \in Runs : row \in counts[s]
  BY DEF Accounted, RowsAccounted, NoneFailed
<1> DEFINE rest == IF run'[r].inserted = run[r].inserted THEN counts
                   ELSE [counts EXCEPT ![r] = {}]
<1>5. rest \in [Runs -> SUBSET rates']
  BY <1>1
<1>6. \A s \in Runs : run'[s].inserted = Cardinality(rest[s])
  BY <1>1, <1>2, <1>4, FS_EmptySet
<1>7. \A s, t \in Runs : s # t => rest[s] \cap rest[t] = {}
  BY <1>4
<1>8. NoneFailed' => \A row \in rates' : \E s \in Runs : row \in rest[s]
  <2> SUFFICES ASSUME NoneFailed', NEW row \in rates'
               PROVE  \E s \in Runs : row \in rest[s]
    OBVIOUS
  <2>1. run'[r].pc # "crashed" /\ run'[r].status # "error"
    BY DEF NoneFailed
  <2>2. NoneFailed /\ rates' = rates /\ rest = counts
    BY <1>1, <1>2, <2>1 DEF NoneFailed
  <2> QED  BY <1>4, <2>2
<1> HIDE DEF rest
<1>9. RowsAccounted'
  BY <1>5, <1>6, <1>7, <1>8 DEF RowsAccounted, NoneFailed
<1> QED  BY <1>3, <1>9 DEF Accounted

LEMMA InitAccounted == Init => Accounted
<1> SUFFICES ASSUME Init PROVE Accounted
  OBVIOUS
<1>1. [r \in Runs |-> {}] \in [Runs -> SUBSET rates]
  OBVIOUS
<1>2. \A r \in Runs : run[r].inserted = Cardinality({})
  BY FS_EmptySet DEF Init, NewRun
<1>3. rates = {}
  BY DEF Init
<1>4. RowsAccounted
  <2> DEFINE counts == [r \in Runs |-> {}]
  <2>1. \A r \in Runs : counts[r] = {}
    OBVIOUS
  <2>2. counts \in [Runs -> SUBSET rates]
    BY <1>1
  <2> HIDE DEF counts
  <2> QED  BY <1>2, <1>3, <2>1, <2>2 DEF RowsAccounted
<1> QED  BY <1>3, <1>4, FS_EmptySet DEF Accounted

LEMMA NextAccounted == IInv /\ Accounted /\ [Next]_vars => Accounted'
<1> SUFFICES ASSUME IInv, Accounted, [Next]_vars PROVE Accounted'
  OBVIOUS
<1>1. CASE Environment \/ UNCHANGED vars
  <2>1. UNCHANGED <<rates, run>>
    BY <1>1 DEF Environment, PublishRelease, Revise, Midnight, vars
  <2> QED  BY <2>1 DEF Accounted, RowsAccounted
<1>2. ASSUME NEW r \in Runs, StoreBatch(r)
      PROVE  Accounted'
  BY <1>2, CommitAccounted
<1>3. ASSUME NEW r \in Runs,
             \/ Launch(r) \/ Cancel(r) \/ Crash(r) \/ (Progress(r) /\ ~ StoreBatch(r))
      PROVE  Accounted'
  BY <1>3, OtherAccounted
<1> QED  BY <1>1, <1>2, <1>3 DEF Next

(* However the runs overlap, fail and die, no row is counted by two of     *)
(* them, and none is lost as long as none of them failed or died: the      *)
(* rows_inserted of sync_runs add up to the table (bulkUpsertRates,        *)
(* processBatch, recordSyncRun).                                           *)
THEOREM RowsCountedOnce == Spec => []RowsAccounted
<1>1. Spec => []Accounted
  BY InitAccounted, NextAccounted, Invariance, PTL DEF Spec
<1>2. Accounted => RowsAccounted
  BY DEF Accounted
<1> QED  BY <1>1, <1>2, PTL

-----------------------------------------------------------------------------
(* The dates the runs report.                                              *)
HasDate(rows, d) == d = NoDate \/ \E row \in rows : row.date = d

(* A run has noted a date that is stored, or about to be.                  *)
NotedOK(r) ==
    /\ HasDate(rates, run[r].lastSyncedAfter)
    /\ run[r].pc \in LivePcs \cup {"idle"} =>
          HasDate(IF run[r].pc = "storing" THEN rates \cup run[r].batch ELSE rates,
                  run[r].maxSeen)

LEMMA HasDateMax ==
    ASSUME NEW rows, NEW a, NEW b, HasDate(rows, a), HasDate(rows, b)
    PROVE  HasDate(rows, MaxDate(a, b))
BY DEF MaxDate

LEMMA HasDateGrows ==
    ASSUME NEW S, NEW T, NEW d, HasDate(S, d), S \subseteq T
    PROVE  HasDate(T, d)
BY DEF HasDate

(* The foot of the loop tells what is stored.                              *)
LEMMA NotedNextWindow ==
    ASSUME NEW r \in Runs, NEW rec \in RunState, run'[r] = NextWindow(rec),
           HasDate(rates', rec.lastSyncedAfter), HasDate(rates', rec.maxSeen)
    PROVE  NotedOK(r)'
<1>1. HasDate(rates', MaxDate(rec.lastSyncedAfter, rec.maxSeen))
  BY HasDateMax
<1> QED  BY <1>1, NextWindowReports DEF NotedOK, LivePcs

LEMMA NotedFetch ==
    ASSUME IInv, NEW r \in Runs, NotedOK(r), FetchRecords(r)
    PROVE  NotedOK(r)'
<1>1. /\ run[r] \in RunState /\ run[r].pc = "fetching" /\ rates' = rates
  BY DEF IInv, TypeOK, FetchRecords
<1>2. HasDate(rates, run[r].lastSyncedAfter) /\ HasDate(rates, run[r].maxSeen)
  BY <1>1 DEF NotedOK, LivePcs
<1>3. PICK newest, f \in Nat, valid \in SUBSET Observation :
          LET seen == [run[r] EXCEPT
                          !.batch = valid, !.fetched = f,
                          !.maxSeen = MaxDate(run[r].maxSeen, newest)]
          IN  /\ IsLatestDate(newest, valid)
              /\ seen \in RunState
              /\ run'[r] = IF valid = {} THEN NextWindow(seen)
                           ELSE [seen EXCEPT !.pc = "storing"]
  BY FetchedRun DEF IInv
<1> DEFINE seen == [run[r] EXCEPT
                      !.batch = valid, !.fetched = f,
                      !.maxSeen = MaxDate(run[r].maxSeen, newest)]
<1>4. /\ seen \in RunState /\ seen.batch = valid
      /\ seen.maxSeen = MaxDate(run[r].maxSeen, newest)
      /\ seen.lastSyncedAfter = run[r].lastSyncedAfter
  BY <1>1, <1>3 DEF RunState
<1>5. run'[r] = IF valid = {} THEN NextWindow(seen) ELSE [seen EXCEPT !.pc = "storing"]
  BY <1>3
<1> HIDE DEF seen
<1>6. HasDate(rates \cup valid, seen.maxSeen)
  <2>1. HasDate(valid, newest)
    BY <1>3 DEF HasDate, IsLatestDate
  <2>2. HasDate(rates \cup valid, newest) /\ HasDate(rates \cup valid, run[r].maxSeen)
    BY <1>2, <2>1, HasDateGrows
  <2> QED  BY <1>4, <2>2, HasDateMax
<1>7. CASE valid = {}
  BY <1>1, <1>2, <1>4, <1>5, <1>6, <1>7, NotedNextWindow
<1>8. CASE valid # {}
  <2>1. /\ run'[r].pc = "storing" /\ run'[r].batch = valid
        /\ run'[r].maxSeen = seen.maxSeen
        /\ run'[r].lastSyncedAfter = seen.lastSyncedAfter
    BY <1>4, <1>5, <1>8 DEF RunState
  <2> QED  BY <1>1, <1>2, <1>4, <1>6, <2>1 DEF NotedOK
<1> QED  BY <1>7, <1>8

LEMMA NotedStore ==
    ASSUME IInv, NEW r \in Runs, NotedOK(r), StoreBatch(r)
    PROVE  NotedOK(r)'
<1> DEFINE b    == run[r].batch
           told == [run[r] EXCEPT
                       !.inserted = run[r].inserted + Cardinality(NewRows(b)),
                       !.skipped = run[r].skipped + Cardinality(b \ NewRows(b))]
<1>1. /\ run[r] \in RunState /\ run[r].pc = "storing"
      /\ rates' = rates \cup NewRows(b)
      /\ told \in RunState /\ run'[r] = NextWindow(told)
  <2>1. TypeOK /\ RunOK(r)
    BY DEF IInv
  <2>2. run[r] \in RunState
    BY <2>1 DEF TypeOK
  <2> QED  BY <2>1, <2>2, StoredRun
<1>2. /\ told.maxSeen = run[r].maxSeen
      /\ told.lastSyncedAfter = run[r].lastSyncedAfter
  BY <1>1 DEF RunState
<1>3. \A d : HasDate(rates \cup b, d) => HasDate(rates', d)
  BY <1>1 DEF HasDate, NewRows, HasKey, SameKey
<1>4. HasDate(rates', run[r].lastSyncedAfter) /\ HasDate(rates', run[r].maxSeen)
  BY <1>1, <1>3 DEF NotedOK, LivePcs, HasDate
<1> HIDE DEF told
<1> QED  BY <1>1, <1>2, <1>4, NotedNextWindow

LEMMA NotedQuiet ==
    ASSUME IInv, NEW r \in Runs, NotedOK(r), rates \subseteq rates',
           \/ Launch(r) \/ LoadLastSynced(r) \/ LoadFails(r) \/ Plan(r)
           \/ StartFetch(r) \/ OpenWindow(r) \/ StopAtWindow(r) \/ RetryFetch(r)
           \/ GiveUp(r) \/ BackoffElapsed(r) \/ BackoffCancelled(r)
           \/ StoreFails(r) \/ Cancel(r) \/ Crash(r)
    PROVE  NotedOK(r)'
<1>1. run[r] \in RunState /\ today \in Nat
  BY DEF IInv, TypeOK
<1>2. \A rec : Become(r, rec) => run'[r] = rec
  BY DEF Become, IInv, TypeOK
<1>3. \A d : HasDate(rates, d) => HasDate(rates', d)
  BY HasDateGrows
<1>4. CASE LoadLastSynced(r)
  <2>1. PICK d : /\ HasDate(rates, d)
                 /\ run'[r] = [run[r] EXCEPT !.pc = "planning", !.lastSynced = d,
                                             !.lastSyncedAfter = d]
    BY <1>2, <1>4 DEF LoadLastSynced, HasDate
  <2>2. /\ run'[r].pc = "planning" /\ run'[r].lastSyncedAfter = d
        /\ run'[r].maxSeen = run[r].maxSeen
    BY <1>1, <2>1 DEF RunState
  <2>3. run[r].pc = "loading" /\ rates' = rates
    BY <1>4 DEF LoadLastSynced
  <2> QED  BY <2>1, <2>2, <2>3 DEF NotedOK, LivePcs
<1>5. CASE StopAtWindow(r) \/ GiveUp(r) \/ BackoffCancelled(r) \/ StoreFails(r)
  <2>1. \E e : run'[r] = ClassifyFetchError(run[r], e)
    BY <1>2, <1>5 DEF StopAtWindow, GiveUp, BackoffCancelled, StoreFails
  <2>2. run'[r].pc = "done" /\ run'[r].lastSyncedAfter = run[r].lastSyncedAfter
    BY <1>1, <2>1 DEF ClassifyFetchError, Return, RunState
  <2> QED  BY <1>3, <2>2 DEF NotedOK, LivePcs
<1>6. CASE Crash(r)
  <2>1. run'[r] = [NewRun EXCEPT !.pc = "crashed"]
    BY <1>2, <1>6 DEF Crash
  <2> QED  BY <2>1 DEF NewRun, NotedOK, LivePcs, HasDate
<1>7. CASE StartFetch(r)
  <2>1. /\ run[r].pc = "starting" /\ rates' = rates
        /\ ~ IsUpToDate(run[r].cursor, today)
    BY <1>1, <1>7 DEF StartFetch, IInv, RunOK, CursorPcs, IsUpToDate, TypeOK, RunState
  <2>2. run'[r] = [run[r] EXCEPT !.pc = "windowing", !.horizon = today]
    BY <1>2, <1>7, <2>1 DEF StartFetch
  <2> QED  BY <1>1, <2>1, <2>2 DEF RunState, NotedOK, LivePcs
<1>8. CASE \/ Launch(r) \/ LoadFails(r) \/ Plan(r) \/ OpenWindow(r)
           \/ RetryFetch(r) \/ BackoffElapsed(r) \/ Cancel(r)
  <2>1. /\ run'[r].maxSeen = run[r].maxSeen /\ run'[r].batch = run[r].batch
        /\ run'[r].lastSyncedAfter = run[r].lastSyncedAfter
    BY <1>1, <1>2, <1>8 DEF Launch, LoadFails, Plan, OpenWindow, RetryFetch,
                            BackoffElapsed, Cancel, RunState
  <2>2. /\ run'[r].pc = "storing" <=> run[r].pc = "storing"
        /\ run[r].pc \in LivePcs \cup {"idle"}
    BY <1>1, <1>2, <1>8 DEF Launch, LoadFails, Plan, OpenWindow, RetryFetch,
                            BackoffElapsed, Cancel, Live, LivePcs, RunState
  <2>3. rates' = rates
    BY <1>8 DEF Launch, LoadFails, Plan, OpenWindow, RetryFetch, BackoffElapsed, Cancel
  <2> QED  BY <2>1, <2>2, <2>3 DEF NotedOK
<1> QED  BY <1>4, <1>5, <1>6, <1>7, <1>8

Noted == \A r \in Runs : NotedOK(r)

LEMMA InitNoted == Init => Noted
BY DEF Init, Noted, NotedOK, NewRun, HasDate

LEMMA NextNoted == IInv /\ Noted /\ [Next]_vars => Noted'
<1> SUFFICES ASSUME IInv, Noted, [Next]_vars PROVE Noted'
  OBVIOUS
<1>1. CASE Environment \/ UNCHANGED vars
  <2>1. UNCHANGED <<rates, run>>
    BY <1>1 DEF Environment, PublishRelease, Revise, Midnight, vars
  <2> QED  BY <2>1 DEF Noted, NotedOK
<1>2. ASSUME NEW r \in Runs, Launch(r) \/ Progress(r) \/ Cancel(r) \/ Crash(r)
      PROVE  Noted'
  <2>1. rates \subseteq rates' /\ \A s \in Runs \ {r} : run'[s] = run[s]
    <3>1. TypeOK'
      BY <1>2, NextIInv DEF IInv, Next
    <3> QED  BY <1>2, <3>1, RunStep DEF IInv, Grows
  <2>2. NotedOK(r)'
    BY <1>2, <2>1, NotedFetch, NotedStore, NotedQuiet DEF Noted, Progress
  <2>3. \A s \in Runs \ {r} : NotedOK(s)'
    <3> SUFFICES ASSUME NEW s \in Runs \ {r} PROVE NotedOK(s)'
      OBVIOUS
    <3>1. run'[s] = run[s] /\ NotedOK(s)
      BY <2>1 DEF Noted
    <3>2. rates \cup run[s].batch \subseteq rates' \cup run[s].batch
      BY <2>1
    <3> QED  BY <2>1, <3>1, <3>2, HasDateGrows DEF NotedOK
  <2> QED  BY <2>2, <2>3 DEF Noted
<1> QED  BY <1>1, <1>2 DEF Next

(* No run reports a date ahead of the table, even one whose last store was *)
(* rolled back or that another run overtook (finalizeSuccess,              *)
(* classifyFetchError).                                                    *)
THEOREM ReportedDatesStored == Spec => []LastSyncedIsStored
<1>1. Spec => []Noted
  BY InitNoted, NextNoted, Invariance, PTL DEF Spec
<1>2. Noted => LastSyncedIsStored
  BY DEF Noted, NotedOK, HasDate, LastSyncedIsStored
<1> QED  BY <1>1, <1>2, PTL

-----------------------------------------------------------------------------
(* Runs one after the other.                                               *)

(* The newest date a run knows of.                                         *)
Newest(r) == MaxDate(run[r].lastSyncedAfter, run[r].maxSeen)

(* A run alone with the table has nothing stored ahead of its cursor, and  *)
(* the newest date it knows of is that of the table, with its batch.       *)
SoloOK(r) ==
    /\ run[r].skipped = 0
    /\ run[r].pc \in {"idle", "loading", "planning"} => run[r].maxSeen = NoDate
    /\ run[r].pc = "planning" =>
          /\ run[r].lastSyncedAfter = run[r].lastSynced
          /\ IsLatestDate(run[r].lastSynced, rates)
    /\ run[r].pc \in CursorPcs =>
          /\ \A row \in rates : row.date <= run[r].cursor
          /\ IsLatestDate(Newest(r), IF run[r].pc = "storing"
                                     THEN rates \cup run[r].batch ELSE rates)

OneLive == \A r, s \in Runs : Live(r) /\ Live(s) => r = s

Alone == OneLive /\ \A r \in Runs : SoloOK(r)

(* What the step of a run says if it ends it well.                         *)
TellsLatest(r) ==
    (run'[r].pc = "done" /\ run'[r].status \in {"success", "empty", "up_to_date"})
        => IsLatestDate(run'[r].lastSyncedAfter, rates')

(* MAX(date) of two sets of rows.                                          *)
LEMMA LatestOfBoth ==
    ASSUME NEW S \in SUBSET Observation, NEW T \in SUBSET Observation,
           NEW a \in Nat, NEW b \in Nat, IsLatestDate(a, S), IsLatestDate(b, T)
    PROVE  IsLatestDate(MaxDate(a, b), S \cup T)
<1>1. \A row \in S \cup T : row.date \in Nat
  BY DEF Observation
<1>2. CASE b > a
  <2>1. MaxDate(a, b) = b
    BY <1>2 DEF MaxDate
  <2>2. \E row \in T : row.date = b
    BY <1>2 DEF IsLatestDate
  <2> QED  BY <1>1, <1>2, <2>1, <2>2 DEF IsLatestDate
<1>3. CASE ~ (b > a)
  <2>1. MaxDate(a, b) = a
    BY <1>3 DEF MaxDate
  <2>2. CASE S = {}
    <3>1. a = 0 /\ b = 0
      BY <1>3, <2>2 DEF IsLatestDate
    <3> QED  BY <2>1, <2>2, <3>1 DEF IsLatestDate
  <2>3. CASE S # {}
    BY <1>1, <1>3, <2>1, <2>3 DEF IsLatestDate
  <2> QED  BY <2>2, <2>3
<1> QED  BY <1>2, <1>3

LEMMA MaxDateLater ==
    ASSUME NEW a \in Nat, NEW b \in Nat, NEW c \in Nat
    PROVE  /\ MaxDate(a, MaxDate(b, c)) = MaxDate(MaxDate(a, b), c)
           /\ MaxDate(a, 0) = a
           /\ MaxDate(a, b) \in Nat
BY DEF MaxDate

(* Stored rows have dates, from day 1 on.                                  *)
LEMMA StoredDates ==
    ASSUME IInv
    PROVE  \A row \in rates : row.date \in Nat /\ row.date > 0
<1> SUFFICES ASSUME NEW row \in rates PROVE row.date \in Nat /\ row.date > 0
  OBVIOUS
<1>1. PICK p \in Published : SameKey(p, row)
  BY DEF IInv, RowsPublished, HasKey
<1>2. p.date \in 1..released
  BY PublishedType DEF IInv
<1> QED  BY <1>1, <1>2 DEF SameKey, IInv, TypeOK

(* The steps before the first window.                                      *)
LEMMA SoloPlan ==
    ASSUME IInv, NEW r \in Runs, SoloOK(r), Plan(r)
    PROVE  SoloOK(r)' /\ TellsLatest(r)
<1> DEFINE after == GetStartDate(CoverageStart, run[r].lastSynced)
           start == AdjustStartForMode(after, today, run[r].mode, DailySyncLookback)
<1>1. /\ run[r] \in RunState /\ run[r].pc = "planning" /\ rates' = rates
      /\ today \in Nat
  BY DEF IInv, TypeOK, Plan
<1>2. /\ run[r].maxSeen = NoDate /\ run[r].skipped = 0
      /\ run[r].lastSyncedAfter = run[r].lastSynced
      /\ IsLatestDate(run[r].lastSynced, rates)
      /\ run[r].lastSynced \in Nat
  BY <1>1 DEF SoloOK, RunState
<1>3. CASE run'[r] = [run[r] EXCEPT !.pc = "done", !.horizon = today,
                                    !.status = "up_to_date"]
  <2>1. /\ run'[r].pc = "done" /\ run'[r].skipped = 0
        /\ run'[r].lastSyncedAfter = run[r].lastSynced
    BY <1>1, <1>2, <1>3 DEF RunState
  <2> QED  BY <1>1, <1>2, <2>1 DEF SoloOK, TellsLatest, CursorPcs
<1>4. CASE run'[r] = [run[r] EXCEPT !.pc = "starting", !.horizon = today,
                                    !.cursor = start]
  <2>1. /\ run'[r].pc = "starting" /\ run'[r].skipped = 0
        /\ run'[r].cursor = start /\ run'[r].maxSeen = NoDate
        /\ run'[r].lastSyncedAfter = run[r].lastSynced
    BY <1>1, <1>2, <1>4 DEF RunState
  <2>2. MaxDate(run[r].lastSynced, NoDate) = run[r].lastSynced
    BY <1>2, MaxDateLater
  <2>3. \A row \in rates : row.date <= after
    BY <1>2, StoredDates DEF GetStartDate, IsLatestDate
  <2>4. after \in Nat /\ start \in Int /\ after <= start
    <3>1. after \in Nat
      BY <1>2, BackfillAssumption DEF GetStartDate
    <3> HIDE DEF after
    <3> QED  BY <1>1, <3>1, BackfillAssumption DEF AdjustStartForMode, MaxDate
  <2>5. \A row \in rates : row.date <= start
    <3> HIDE DEF after, start
    <3> QED  BY <2>3, <2>4, StoredDates
  <2> HIDE DEF start
  <2> QED
    BY <1>1, <1>2, <2>1, <2>2, <2>5 DEF SoloOK, TellsLatest, CursorPcs, Newest
<1> QED  BY <1>3, <1>4 DEF Plan, Become, IInv, TypeOK

(* Steps that leave the table and the report as they are, or end the run   *)
(* without success.                                                        *)
LEMMA SoloQuiet ==
    ASSUME IInv, NEW r \in Runs, SoloOK(r),
           \/ Launch(r) \/ LoadLastSynced(r) \/ LoadFails(r) \/ StartFetch(r)
           \/ OpenWindow(r) \/ StopAtWindow(r) \/ RetryFetch(r) \/ GiveUp(r)
           \/ BackoffElapsed(r) \/ BackoffCancelled(r) \/ StoreFails(r)
           \/ Cancel(r) \/ Crash(r)
    PROVE  SoloOK(r)' /\ TellsLatest(r)
<1>1. run[r] \in RunState
  BY DEF IInv, TypeOK
<1>2. \A rec : Become(r, rec) => run'[r] = rec
  BY DEF Become, IInv, TypeOK
<1>3. CASE LoadLastSynced(r)
  <2>1. PICK d : /\ IsLatestDate(d, rates)
                 /\ run'[r] = [run[r] EXCEPT !.pc = "planning", !.lastSynced = d,
                                             !.lastSyncedAfter = d]
    BY <1>2, <1>3 DEF LoadLastSynced
  <2>2. /\ run'[r].pc = "planning" /\ run'[r].skipped = 0
        /\ run'[r].maxSeen = NoDate
        /\ run'[r].lastSynced = d /\ run'[r].lastSyncedAfter = d
    BY <1>1, <1>3, <2>1 DEF LoadLastSynced, SoloOK, RunState
  <2>3. rates' = rates
    BY <1>3 DEF LoadLastSynced
  <2> QED  BY <2>1, <2>2, <2>3 DEF SoloOK, TellsLatest, CursorPcs
<1>4. CASE \/ LoadFails(r) \/ StopAtWindow(r) \/ GiveUp(r) \/ BackoffCancelled(r)
           \/ StoreFails(r) \/ Crash(r)
  <2>1. /\ run'[r].pc \in {"aborted", "done", "crashed"} /\ run'[r].skipped = 0
        /\ run'[r].pc = "done" => run'[r].status \in {"error", "unavailable"}
    <3>1. CASE LoadFails(r)
      BY <1>1, <1>2, <3>1 DEF LoadFails, SoloOK, RunState
    <3>2. CASE StopAtWindow(r) \/ GiveUp(r) \/ BackoffCancelled(r) \/ StoreFails(r)
      <4>1. \E e : run'[r] = ClassifyFetchError(run[r], e)
        BY <1>2, <3>2 DEF StopAtWindow, GiveUp, BackoffCancelled, StoreFails
      <4> QED  BY <1>1, <4>1, ClassifyEnds, ClassifyReports DEF SoloOK
    <3>3. CASE Crash(r)
      <4>1. run'[r] = [NewRun EXCEPT !.pc = "crashed"]
        BY <1>2, <3>3 DEF Crash
      <4> QED  BY <4>1 DEF NewRun
    <3> QED  BY <1>4, <3>1, <3>2, <3>3
  <2> QED  BY <2>1 DEF SoloOK, TellsLatest, CursorPcs
<1>5. CASE StartFetch(r)
  <2>1. /\ run[r].pc = "starting" /\ rates' = rates
        /\ ~ IsUpToDate(run[r].cursor, today)
    BY <1>1, <1>5 DEF StartFetch, IInv, RunOK, CursorPcs, IsUpToDate, TypeOK, RunState
  <2>2. run'[r] = [run[r] EXCEPT !.pc = "windowing", !.horizon = today]
    BY <1>2, <1>5, <2>1 DEF StartFetch
  <2>3. /\ run'[r].pc = "windowing" /\ run'[r].skipped = run[r].skipped
        /\ run'[r].cursor = run[r].cursor /\ run'[r].maxSeen = run[r].maxSeen
        /\ run'[r].lastSyncedAfter = run[r].lastSyncedAfter
    BY <1>1, <2>2 DEF RunState
  <2> QED  BY <2>1, <2>3 DEF SoloOK, TellsLatest, CursorPcs, Newest
<1>6. CASE Launch(r) \/ OpenWindow(r) \/ RetryFetch(r) \/ BackoffElapsed(r) \/ Cancel(r)
  <2>1. /\ run'[r].skipped = run[r].skipped /\ run'[r].cursor = run[r].cursor
        /\ run'[r].maxSeen = run[r].maxSeen /\ run'[r].batch = run[r].batch
        /\ run'[r].lastSynced = run[r].lastSynced
        /\ run'[r].lastSyncedAfter = run[r].lastSyncedAfter
    BY <1>1, <1>2, <1>6 DEF Launch, OpenWindow, RetryFetch, BackoffElapsed, Cancel, RunState
  <2>2. \/ run[r].pc = "idle" /\ run'[r].pc = "loading"
        \/ /\ run[r].pc \in {"windowing", "fetching", "backoff"}
           /\ run'[r].pc \in {"fetching", "backoff"}
        \/ run[r].pc \in LivePcs /\ run'[r].pc = run[r].pc
    BY <1>1, <1>2, <1>6 DEF Launch, OpenWindow, RetryFetch, BackoffElapsed, Cancel,
                            Live, RunState
  <2>3. rates' = rates
    BY <1>6 DEF Launch, OpenWindow, RetryFetch, BackoffElapsed, Cancel
  <2> QED  BY <2>1, <2>2, <2>3 DEF SoloOK, TellsLatest, CursorPcs, LivePcs, Newest
<1> QED  BY <1>3, <1>4, <1>5, <1>6

(* The foot of the window loop, once the window is behind the cursor.      *)
LEMMA SoloNextWindow ==
    ASSUME NEW r \in Runs, NEW rec \in RunState, run'[r] = NextWindow(rec),
           rec.skipped = 0,
           IsLatestDate(MaxDate(rec.lastSyncedAfter, rec.maxSeen), rates'),
           rec.upto # NoDate => \A row \in rates' : row.date <= rec.upto
    PROVE  SoloOK(r)' /\ TellsLatest(r)
BY NextWindowReports DEF SoloOK, TellsLatest, CursorPcs, Newest

(* A window lies ahead of the cursor, and so ahead of the table.           *)
LEMMA WindowAhead ==
    ASSUME IInv, NEW r \in Runs, SoloOK(r), run[r].pc \in WindowPcs
    PROVE  /\ run[r].upto # NoDate => run[r].cursor <= run[r].upto
           /\ \A b \in Observation :
                 InWindow(b.date, run[r].after, run[r].upto)
                    => /\ ~ HasKey(rates, b)
                       /\ run[r].upto # NoDate => b.date <= run[r].upto
<1>1. /\ run[r] \in RunState
      /\ run[r].after = FetchAfter(run[r].cursor)
      /\ run[r].upto = WindowUpto(run[r].after, run[r].horizon, BackfillRange)
      /\ \A row \in rates : row.date <= run[r].cursor
  BY DEF IInv, TypeOK, RunOK, SoloOK, WindowPcs, CursorPcs
<1>2. run[r].cursor \in Nat /\ run[r].horizon \in Nat /\ BackfillRange \in Nat
  BY <1>1, BackfillAssumption DEF RunState
<1>3. run[r].upto # NoDate => run[r].cursor <= run[r].upto
  BY <1>1, <1>2 DEF FetchAfter, WindowUpto
<1>4. ASSUME NEW b \in Observation, InWindow(b.date, run[r].after, run[r].upto)
      PROVE  /\ ~ HasKey(rates, b)
             /\ run[r].upto # NoDate => b.date <= run[r].upto
  <2>1. b.date >= run[r].after /\ (run[r].upto # NoDate => b.date <= run[r].upto)
    BY <1>4 DEF InWindow
  <2>2. \A row \in rates : row.date # b.date
    BY <1>1, <1>2, <2>1, StoredDates DEF FetchAfter, Observation
  <2> QED  BY <2>1, <2>2 DEF HasKey, SameKey
<1> QED  BY <1>3, <1>4

LEMMA SoloFetch ==
    ASSUME IInv, NEW r \in Runs, SoloOK(r), FetchRecords(r)
    PROVE  SoloOK(r)' /\ TellsLatest(r)
<1>1. /\ run[r] \in RunState /\ run[r].pc = "fetching" /\ rates' = rates
      /\ rates \in SUBSET Observation
  BY DEF IInv, TypeOK, FetchRecords
<1>2. /\ run[r].skipped = 0 /\ \A row \in rates : row.date <= run[r].cursor
      /\ IsLatestDate(MaxDate(run[r].lastSyncedAfter, run[r].maxSeen), rates)
  BY <1>1 DEF SoloOK, CursorPcs, Newest
<1>3. PICK newest, f \in Nat, valid \in SUBSET Observation :
          LET seen == [run[r] EXCEPT
                          !.batch = valid, !.fetched = f,
                          !.maxSeen = MaxDate(run[r].maxSeen, newest)]
          IN  /\ IsLatestDate(newest, valid)
              /\ seen \in RunState
              /\ run'[r] = IF valid = {} THEN NextWindow(seen)
                           ELSE [seen EXCEPT !.pc = "storing"]
  BY FetchedRun DEF IInv
<1> DEFINE seen == [run[r] EXCEPT
                      !.batch = valid, !.fetched = f,
                      !.maxSeen = MaxDate(run[r].maxSeen, newest)]
<1>4. /\ seen \in RunState
      /\ seen.batch = valid /\ seen.skipped = 0
      /\ seen.maxSeen = MaxDate(run[r].maxSeen, newest)
      /\ seen.lastSyncedAfter = run[r].lastSyncedAfter
      /\ seen.cursor = run[r].cursor /\ seen.upto = run[r].upto
  BY <1>1, <1>2, <1>3 DEF RunState
<1>5. run'[r] = IF valid = {} THEN NextWindow(seen) ELSE [seen EXCEPT !.pc = "storing"]
  BY <1>3
<1> HIDE DEF seen
<1>6. IsLatestDate(MaxDate(seen.lastSyncedAfter, seen.maxSeen), rates \cup valid)
  <2>1. run[r].lastSyncedAfter \in Nat /\ run[r].maxSeen \in Nat
    BY <1>1 DEF RunState
  <2>2. IsLatestDate(newest, valid)
    BY <1>3
  <2>3. IsLatestDate(MaxDate(MaxDate(run[r].lastSyncedAfter, run[r].maxSeen), newest),
                     rates \cup valid)
    BY <1>1, <1>2, <2>1, <2>2, LatestOfBoth, MaxDateLater
  <2>4. MaxDate(MaxDate(run[r].lastSyncedAfter, run[r].maxSeen), newest)
           = MaxDate(run[r].lastSyncedAfter, MaxDate(run[r].maxSeen, newest))
    BY <2>1, MaxDateLater
  <2> QED  BY <1>4, <2>3, <2>4
<1>7. CASE valid = {}
  <2>1. IsLatestDate(MaxDate(seen.lastSyncedAfter, seen.maxSeen), rates')
    BY <1>1, <1>6, <1>7
  <2>2. seen.upto # NoDate => \A row \in rates' : row.date <= seen.upto
    <3>1. run[r].upto # NoDate => run[r].cursor <= run[r].upto
      BY <1>1, WindowAhead DEF WindowPcs
    <3> QED  BY <1>1, <1>2, <1>4, <3>1, StoredDates DEF RunState
  <2> QED  BY <1>4, <1>5, <1>7, <2>1, <2>2, SoloNextWindow
<1>8. CASE valid # {}
  <2>1. /\ run'[r].pc = "storing" /\ run'[r].skipped = 0 /\ run'[r].batch = valid
        /\ run'[r].cursor = run[r].cursor /\ run'[r].maxSeen = seen.maxSeen
        /\ run'[r].lastSyncedAfter = seen.lastSyncedAfter
    BY <1>4, <1>5, <1>8 DEF RunState
  <2> QED
    BY <1>1, <1>2, <1>6, <2>1 DEF SoloOK, TellsLatest, CursorPcs, Newest
<1> QED  BY <1>7, <1>8

(* None of the rows of a batch is there yet.                               *)
LEMMA SoloStore ==
    ASSUME IInv, NEW r \in Runs, SoloOK(r), StoreBatch(r)
    PROVE  SoloOK(r)' /\ TellsLatest(r)
<1> DEFINE b    == run[r].batch
           new  == NewRows(b)
           told == [run[r] EXCEPT
                       !.inserted = run[r].inserted + Cardinality(new),
                       !.skipped = run[r].skipped + Cardinality(b \ new)]
<1>1. /\ run[r] \in RunState /\ run[r].pc = "storing" /\ BatchOK(r)
      /\ rates' = rates \cup new
      /\ told \in RunState /\ run'[r] = NextWindow(told)
  <2>1. TypeOK /\ RunOK(r) /\ run[r].pc = "storing"
    BY DEF IInv, StoreBatch
  <2>2. run[r] \in RunState /\ BatchOK(r)
    BY <2>1 DEF TypeOK, RunOK
  <2> QED  BY <2>1, <2>2, StoredRun
<1>2. /\ run[r].skipped = 0 /\ \A row \in rates : row.date <= run[r].cursor
      /\ IsLatestDate(MaxDate(run[r].lastSyncedAfter, run[r].maxSeen), rates \cup b)
  BY <1>1 DEF SoloOK, CursorPcs, Newest
<1>3. \A row \in b : /\ ~ HasKey(rates, row)
                     /\ run[r].upto # NoDate => row.date <= run[r].upto
  <2>1. b \subseteq Observation
    BY <1>1 DEF RunState
  <2> QED  BY <1>1, <2>1, WindowAhead DEF BatchOK, WindowPcs
<1>4. new = b /\ b \ new = {}
  BY <1>3 DEF NewRows
<1>5. /\ told.skipped = 0 /\ told.upto = run[r].upto
      /\ told.maxSeen = run[r].maxSeen
      /\ told.lastSyncedAfter = run[r].lastSyncedAfter
  <2>1. run[r].skipped + Cardinality(b \ new) = 0
    BY <1>2, <1>4, FS_EmptySet
  <2> QED  BY <1>1, <2>1 DEF RunState
<1>6. IsLatestDate(MaxDate(told.lastSyncedAfter, told.maxSeen), rates')
  BY <1>1, <1>2, <1>4, <1>5
<1>7. told.upto # NoDate => \A row \in rates' : row.date <= told.upto
  <2>1. run[r].upto # NoDate => run[r].cursor <= run[r].upto
    BY <1>1, WindowAhead DEF WindowPcs
  <2>2. run[r].upto \in Nat /\ run[r].cursor \in Nat
    BY <1>1 DEF RunState
  <2>3. run[r].upto # NoDate => \A row \in rates : row.date <= run[r].upto
    BY <1>2, <2>1, <2>2, StoredDates
  <2> QED  BY <1>1, <1>3, <1>4, <1>5, <2>3
<1> HIDE DEF told
<1> QED  BY <1>1, <1>5, <1>6, <1>7, SoloNextWindow

-----------------------------------------------------------------------------
LEMMA InitAlone == Init => Alone
BY DEF Init, Alone, OneLive, Live, LivePcs, SoloOK, CursorPcs, NewRun

(* One run is live at a time, and it alone moves.                          *)
LEMMA AloneStep ==
    ASSUME IInv, ~ Overlap, Alone, NEW r \in Runs,
           Launch(r) \/ Progress(r) \/ Cancel(r) \/ Crash(r)
    PROVE  Alone' /\ TellsLatest(r) /\ \A s \in Runs \ {r} : run'[s] = run[s]
<1>1. SoloOK(r)' /\ TellsLatest(r)
  BY SoloPlan, SoloQuiet, SoloFetch, SoloStore DEF Alone, Progress
<1>2. \A s \in Runs \ {r} : run'[s] = run[s]
  <2>1. TypeOK'
    BY NextIInv DEF IInv, Next
  <2> QED  BY <2>1, RunStep DEF IInv
<1>3. \A s \in Runs \ {r} : ~ Live(s)
  <2>1. CASE Launch(r)
    BY <2>1 DEF Launch
  <2>2. CASE ~ Launch(r)
    <3>1. Live(r)
      BY <2>2 DEF Live, LivePcs, Cancel, Crash, Progress, LoadLastSynced, LoadFails,
             Plan, StartFetch, OpenWindow, StopAtWindow, FetchRecords, RetryFetch,
             GiveUp, BackoffElapsed, BackoffCancelled, StoreBatch, StoreFails
    <3> QED  BY <3>1 DEF Alone, OneLive
  <2> QED  BY <2>1, <2>2
<1>4. OneLive'
  BY <1>2, <1>3 DEF OneLive, Live
<1>5. \A s \in Runs \ {r} : SoloOK(s)'
  <2> SUFFICES ASSUME NEW s \in Runs \ {r} PROVE SoloOK(s)'
    OBVIOUS
  <2>1. run'[s] = run[s] /\ SoloOK(s) /\ run[s].pc \notin LivePcs
    BY <1>2, <1>3 DEF Alone, Live
  <2> QED  BY <2>1 DEF SoloOK, LivePcs, CursorPcs
<1> QED  BY <1>1, <1>2, <1>4, <1>5 DEF Alone

LEMMA NextAlone ==
    ASSUME ~ Overlap
    PROVE  IInv /\ Alone /\ [Next]_vars =>
              /\ Alone'
              /\ \A r \in Runs : run'[r] # run[r] => TellsLatest(r)
<1> SUFFICES ASSUME IInv, Alone, [Next]_vars
             PROVE  Alone' /\ \A r \in Runs : run'[r] # run[r] => TellsLatest(r)
  OBVIOUS
<1>1. CASE Environment \/ UNCHANGED vars
  <2>1. UNCHANGED <<rates, run>>
    BY <1>1 DEF Environment, PublishRelease, Revise, Midnight, vars
  <2> QED  BY <2>1 DEF Alone, OneLive, Live, SoloOK, Newest
<1>2. ASSUME NEW r \in Runs, Launch(r) \/ Progress(r) \/ Cancel(r) \/ Crash(r)
      PROVE  Alone' /\ \A s \in Runs : run'[s] # run[s] => TellsLatest(s)
  BY <1>2, AloneStep
<1> QED  BY <1>1, <1>2 DEF Next

LEMMA AloneInvariant ==
    ASSUME ~ Overlap
    PROVE  Spec => [](IInv /\ Alone)
<1>1. IInv /\ Alone /\ [Next]_vars => Alone'
  BY NextAlone
<1> QED  BY <1>1, InitAlone, Invariance, PTL DEF Spec

(* Runs that never overlap never meet a row they are about to store: what  *)
(* DO NOTHING absorbs comes from overlapping runs only (processBatch).     *)
THEOREM SoloSkipsNothing == Spec => []SoloNeverSkips
<1>1. CASE Overlap
  <2>1. SoloNeverSkips
    BY <1>1 DEF SoloNeverSkips
  <2> QED  BY <2>1, PTL
<1>2. CASE ~ Overlap
  <2>1. Spec => [](IInv /\ Alone)
    BY <1>2, AloneInvariant
  <2>2. IInv /\ Alone => SoloNeverSkips
    BY DEF Alone, SoloOK, SoloNeverSkips
  <2> QED  BY <2>1, <2>2, PTL
<1> QED  BY <1>1, <1>2

(* When runs do not overlap, the last_synced of a run that ends well is    *)
(* MAX(date) of the table at that moment (finalizeSuccess, isUpToDate).    *)
THEOREM LatestReported ==
    ASSUME ~ Overlap
    PROVE  Spec => SuccessReportsLatest
<1>1. IInv /\ Alone /\ [Next]_vars =>
         [\A r \in Runs :
             (run[r].pc # "done" /\ run'[r].pc = "done"
                /\ run'[r].status \in {"success", "empty", "up_to_date"})
             => IsLatestDate(run'[r].lastSyncedAfter, rates')]_vars
  BY NextAlone DEF TellsLatest
<1> QED  BY <1>1, AloneInvariant, PTL DEF Spec, SuccessReportsLatest
=============================================================================
