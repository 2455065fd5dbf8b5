--------------------------- MODULE BackfillProofs ---------------------------
(***************************************************************************)
(* Proofs about Backfill for every set of runs, every release calendar and *)
(* every window size: the inductive invariant IInv, the safety properties  *)
(* it implies, and the refinement of RateLedger.                           *)
(***************************************************************************)
EXTENDS Backfill, FiniteSetTheorems, TLAPS

USE DEF NoDate

(***************************************************************************)
(* What the steps may do to the upstream and the table.  Keys are never    *)
(* unpublished, a new key belongs to a day after those released so far,    *)
(* and rows and given-up days only accumulate.                             *)
(***************************************************************************)
Grows ==
    /\ today <= today'
    /\ released <= released'
    /\ \A o \in Published : HasKey(Published', o)
    /\ \A o \in Published' : HasKey(Published, o) \/ o.date > released
    /\ \A o \in Published' : o.date > released => o.date >= today
    /\ rates \subseteq rates'
    /\ capSkipped \subseteq capSkipped'

-----------------------------------------------------------------------------
(* Membership in Published without its set constructors.                   *)
LEMMA PublishedDef ==
    ASSUME NEW o
    PROVE  o \in Published <=>
              \E day \in 1..released, q \in Quotes :
                  /\ o = [date |-> day, quote |-> q, rate |-> upstream[day][q]]
                  /\ upstream[day][q] > 0
BY DEF Published, ReleaseRows

(* A published observation is well formed, and dated on a released day.    *)
LEMMA PublishedType ==
    ASSUME TypeOK, NEW o \in Published
    PROVE  o \in Observation /\ o.date \in 1..released /\ o.rate > 0
<1>1. PICK day \in 1..released, q \in Quotes :
          /\ o = [date |-> day, quote |-> q, rate |-> upstream[day][q]]
          /\ upstream[day][q] > 0
  BY PublishedDef
<1>2. upstream[day][q] \in Nat
  BY <1>1 DEF TypeOK
<1> QED  BY <1>1, <1>2 DEF Observation, TypeOK

(* The upstream shows one rate for a day and a currency.                   *)
LEMMA PublishedKeysUnique == KeysUnique(Published)
<1> SUFFICES ASSUME NEW a \in Published, NEW b \in Published, SameKey(a, b)
             PROVE  a = b
  BY DEF KeysUnique
<1>1. PICK d1 \in 1..released, q1 \in Quotes :
          a = [date |-> d1, quote |-> q1, rate |-> upstream[d1][q1]]
  BY PublishedDef
<1>2. PICK d2 \in 1..released, q2 \in Quotes :
          b = [date |-> d2, quote |-> q2, rate |-> upstream[d2][q2]]
  BY PublishedDef
<1> QED  BY <1>1, <1>2 DEF SameKey

(* An answer of the upstream is finite.                                    *)
LEMMA PublishedFinite ==
    ASSUME TypeOK
    PROVE  IsFiniteSet(Published)
<1> DEFINE S == (1..released) \X Quotes
           Row(p) == [date |-> p[1], quote |-> p[2], rate |-> upstream[p[1]][p[2]]]
           f == [p \in S |-> Row(p)]
           T == {f[p] : p \in S}
<1>1. IsFiniteSet(S)
  <2>1. released \in Int /\ 1 \in Int
    BY DEF TypeOK
  <2>2. IsFiniteSet(1..released)
    BY ONLY <2>1, FS_Interval
  <2>3. IsFiniteSet(Quotes)
    BY BackfillAssumption
  <2> QED  BY <2>2, <2>3, FS_Product
<1>2. f \in Surjection(S, T)
  BY DEF Surjection
<1>3. IsFiniteSet(T)
  BY <1>1, <1>2, FS_Surjection
<1>4. Published \subseteq T
  <2> SUFFICES ASSUME NEW o \in Published PROVE o \in T
    OBVIOUS
  <2>1. PICK day \in 1..released, q \in Quotes :
            o = [date |-> day, quote |-> q, rate |-> upstream[day][q]]
    BY PublishedDef
  <2>2. <<day, q>> \in S /\ f[<<day, q>>] = o
    BY <2>1
  <2> QED  BY <2>2
<1> QED  BY <1>3, <1>4, FS_Subset

LEMMA HasKeyTrans ==
    ASSUME NEW A, NEW B, NEW o, HasKey(A, o), \A a \in A : HasKey(B, a)
    PROVE  HasKey(B, o)
BY DEF HasKey, SameKey

-----------------------------------------------------------------------------
(* What was complete stays complete, for dates already released.           *)
LEMMA CompleteGrows ==
    ASSUME TypeOK, Grows, NEW d \in Int, d <= released, CompleteThrough(d)
    PROVE  CompleteThrough(d)'
<1> SUFFICES ASSUME NEW o \in Published',
                    Storable(o), CoverageStart < o.date, o.date <= d,
                    o.date \notin capSkipped'
             PROVE  HasKey(rates', o)
  BY DEF CompleteThrough, Covers
<1>1. PICK p \in Published : SameKey(p, o)
  <2>1. PICK day \in 1..released', q \in Quotes :
            o = [date |-> day, quote |-> q, rate |-> (upstream')[day][q]]
    BY DEF Published, ReleaseRows
  <2>2. ~ (o.date > released)
    BY <2>1 DEF TypeOK
  <2> QED  BY <2>2 DEF Grows, HasKey, SameKey
<1>2. Storable(p) /\ CoverageStart < p.date /\ p.date <= d /\ p.date \notin capSkipped
  BY <1>1, PublishedType DEF Storable, SameKey, Grows
<1>3. HasKey(rates, p)
  BY <1>1, <1>2 DEF CompleteThrough, Covers
<1> QED  BY <1>1, <1>3 DEF Grows, HasKey, SameKey

LEMMA HasKeyGrows ==
    ASSUME Grows, NEW o, HasKey(Published, o)
    PROVE  HasKey(Published', o)
BY DEF Grows, HasKey, SameKey

(* Another run's step leaves a run's picture of its window complete: what  *)
(* is released meanwhile belongs to a later day than its horizon.          *)
LEMMA BatchGrows ==
    ASSUME TypeOK, TypeOK', CalendarOK, Grows,
           NEW s \in Runs, run'[s] = run[s],
           run[s].horizon <= today, BatchOK(s)
    PROVE  BatchOK(s)'
<1>1. run[s] \in RunState
  BY DEF TypeOK
<1> DEFINE b == run[s].batch
           h == run[s].horizon
<1>2. \A x \in b : HasKey(Published', x)
  BY HasKeyGrows DEF BatchOK
<1>3. ASSUME NEW o \in Published', Storable(o),
             InWindow(o.date, run[s].after, run[s].upto),
             o.date < h \/ \E x \in b : o.date <= x.date
      PROVE  HasKey(b, o)
  <2>0. /\ \A x \in Published : x.date \in 1..released /\ x.rate > 0
        /\ h \in Nat
    BY <1>1, PublishedType DEF RunState
  <2>1. PICK day \in 1..released', q \in Quotes :
            o = [date |-> day, quote |-> q, rate |-> (upstream')[day][q]]
    BY DEF Published, ReleaseRows
  <2>2. \A x \in b : x.date <= released
    BY <2>0 DEF BatchOK, HasKey, SameKey
  <2>3. ~ (o.date > released)
    <3> SUFFICES ASSUME o.date > released PROVE FALSE
      OBVIOUS
    <3>1. o.date >= today
      BY DEF Grows
    <3>2. CASE o.date < h
      BY <3>1, <3>2, <2>0, <2>1 DEF TypeOK
    <3>3. CASE \E x \in b : o.date <= x.date
      <4>1. PICK x \in b : o.date <= x.date
        BY <3>3
      <4>2. x.date \in Nat
        BY <1>1 DEF RunState, Observation
      <4> QED  BY <4>1, <4>2, <2>1, <2>2 DEF TypeOK
    <3> QED  BY <1>3, <3>2, <3>3
  <2>4. PICK p \in Published : SameKey(p, o)
    BY <2>3 DEF Grows, HasKey, SameKey
  <2>5. Storable(p)
    BY <1>3, <2>0, <2>4 DEF Storable, SameKey
  <2>6. HasKey(b, p)
    BY <1>3, <2>4, <2>5 DEF BatchOK, SameKey
  <2> QED  BY <2>4, <2>6 DEF HasKey, SameKey
<1> QED  BY <1>2, <1>3 DEF BatchOK

(* A run that does not move keeps its part of the invariant.               *)
LEMMA RunOKGrows ==
    ASSUME TypeOK, TypeOK', CalendarOK, Grows,
           NEW s \in Runs, run'[s] = run[s], RunOK(s)
    PROVE  RunOK(s)'
<1>1. run[s] \in RunState
  BY DEF TypeOK
<1>2. ASSUME NEW d \in Int, d <= released, CompleteThrough(d)
      PROVE  Covers(rates', Published', CoverageStart, d, capSkipped')
  BY <1>2, CompleteGrows DEF CompleteThrough
<1>3. run[s].horizon \in Nat /\ run[s].horizon - 1 <= released
  BY <1>1 DEF RunOK, CalendarOK, RunState, TypeOK
<1>4. run[s].horizon <= today'
  BY <1>3 DEF RunOK, Grows, TypeOK
<1>5. run[s].pc = "planning" =>
         /\ run[s].lastSynced <= released'
         /\ Covers(rates', Published', CoverageStart, run[s].lastSynced, capSkipped')
  BY <1>1, <1>2 DEF RunOK, RunState, Grows, TypeOK
<1>6. run[s].pc \in CursorPcs =>
         Covers(rates', Published', CoverageStart, run[s].cursor, capSkipped')
  <2> SUFFICES ASSUME run[s].pc \in CursorPcs
               PROVE  Covers(rates', Published', CoverageStart, run[s].cursor, capSkipped')
    OBVIOUS
  <2>1. run[s].cursor \in Nat /\ run[s].cursor <= released
    BY <1>1, <1>3 DEF RunOK, RunState, TypeOK
  <2> QED  BY <1>2, <2>1 DEF RunOK
<1>7. run[s].status \in {"success", "empty", "up_to_date"} =>
         Covers(rates', Published', CoverageStart, run[s].horizon - 1, capSkipped')
  BY <1>2, <1>3 DEF RunOK
<1>8. run[s].pc = "storing" => BatchOK(s)'
  BY BatchGrows DEF RunOK
<1> QED
  BY <1>4, <1>5, <1>6, <1>7, <1>8 DEF RunOK, CompleteThrough

-----------------------------------------------------------------------------
(* Every record the steps build is a run state.                            *)
LEMMA NewRunType == NewRun \in RunState
BY DEF NewRun, RunState, Statuses

LEMMA FinalizeType ==
    ASSUME NEW rec \in RunState
    PROVE  FinalizeSuccess(rec) \in RunState
BY DEF FinalizeSuccess, Return, RunState, Statuses, MaxDate

LEMMA ClassifyType ==
    ASSUME NEW rec \in RunState,
           NEW e \in FetchErrors \cup {"cancelled", "database"}
    PROVE  ClassifyFetchError(rec, e) \in RunState
BY DEF ClassifyFetchError, Return, RunState, Statuses

LEMMA ClassifyEnds ==
    ASSUME NEW rec \in RunState, NEW e
    PROVE  /\ ClassifyFetchError(rec, e).pc = "done"
           /\ ClassifyFetchError(rec, e).status \in {"error", "unavailable"}
           /\ ClassifyFetchError(rec, e).horizon = rec.horizon
BY DEF ClassifyFetchError, Return, RunState

LEMMA NextWindowType ==
    ASSUME NEW rec \in RunState
    PROVE  NextWindow(rec) \in RunState
<1>1. CASE rec.upto = NoDate \/ rec.upto >= rec.horizon
  BY <1>1, FinalizeType DEF NextWindow
<1>2. CASE ~ (rec.upto = NoDate \/ rec.upto >= rec.horizon)
  <2>1. [rec EXCEPT !.pc = "windowing", !.cursor = rec.upto, !.batch = {}] \in RunState
    BY DEF RunState
  <2> QED  BY <1>2, <2>1 DEF NextWindow
<1> QED  BY <1>1, <1>2

(* A step that puts a run state in its place and only adds observations    *)
(* and days keeps the types.                                               *)
LEMMA BecomeType ==
    ASSUME TypeOK, NEW r \in Runs, NEW rec \in RunState, Become(r, rec),
           UNCHANGED <<today, released, upstream>>,
           rates' \subseteq Observation, capSkipped' \subseteq Nat
    PROVE  TypeOK'
BY DEF TypeOK, Become

(* Records and rows added by a step of a run.                              *)
LEMMA FetchRecordsType ==
    ASSUME TypeOK, NEW r \in Runs, FetchRecords(r)
    PROVE  TypeOK'
<1> DEFINE records == Fetched(run[r].after, run[r].upto)
           valid   == {o \in records : Storable(o)}
<1>1. PICK newest \in {o.date : o \in valid} \cup {NoDate} :
          Become(r, IF valid = {}
                    THEN NextWindow([run[r] EXCEPT
                              !.batch = valid,
                              !.fetched = @ + Cardinality(records),
                              !.maxSeen = MaxDate(@, newest)])
                    ELSE [[run[r] EXCEPT
                              !.batch = valid,
                              !.fetched = @ + Cardinality(records),
                              !.maxSeen = MaxDate(@, newest)] EXCEPT !.pc = "storing"])
  BY DEF FetchRecords
<1> DEFINE seen == [run[r] EXCEPT !.batch = valid,
                                  !.fetched = @ + Cardinality(records),
                                  !.maxSeen = MaxDate(@, newest)]
<1>2. records \subseteq Published /\ valid \subseteq Observation
  BY PublishedType DEF Fetched
<1>3. Cardinality(records) \in Nat
  <2>1. IsFiniteSet(records)
    BY <1>2, PublishedFinite, FS_Subset
  <2> QED  BY <2>1, FS_CardinalityType
<1>4. newest \in Nat
  BY <1>2 DEF Observation
<1>5. run[r] \in RunState
  BY DEF TypeOK
<1> HIDE DEF records, valid
<1>6. seen \in RunState
  <2>1. \A rec \in RunState : \A b \in SUBSET Observation : \A f, m \in Nat :
            [rec EXCEPT !.batch = b, !.fetched = f, !.maxSeen = m] \in RunState
    BY DEF RunState
  <2>2. /\ run[r].fetched + Cardinality(records) \in Nat
        /\ MaxDate(run[r].maxSeen, newest) \in Nat
    BY <1>3, <1>4, <1>5 DEF RunState, MaxDate
  <2>3. valid \in SUBSET Observation
    BY <1>2
  <2> QED  BY <1>5, <2>1, <2>2, <2>3
<1>7. [seen EXCEPT !.pc = "storing"] \in RunState
  BY <1>6 DEF RunState
<1>8. NextWindow(seen) \in RunState
  BY <1>6, NextWindowType
<1>9. UNCHANGED <<today, released, upstream, rates, capSkipped>>
  BY DEF FetchRecords
<1> HIDE DEF seen
<1>10. CASE valid = {}
  <2>1. Become(r, NextWindow(seen))
    BY <1>1, <1>10 DEF seen
  <2> QED  BY <1>8, <1>9, <2>1, BecomeType DEF TypeOK
<1>11. CASE valid # {}
  <2>1. Become(r, [seen EXCEPT !.pc = "storing"])
    BY <1>1, <1>11 DEF seen
  <2> QED  BY <1>7, <1>9, <2>1, BecomeType DEF TypeOK
<1> QED  BY <1>10, <1>11

LEMMA StoreBatchType ==
    ASSUME TypeOK, NEW r \in Runs, IsFiniteSet(run[r].batch), StoreBatch(r)
    PROVE  TypeOK'
<1> DEFINE new == NewRows(run[r].batch)
           rec == [run[r] EXCEPT
                      !.inserted = @ + Cardinality(new),
                      !.skipped = @ + Cardinality(run[r].batch \ new)]
<1>1. new \subseteq run[r].batch /\ run[r] \in RunState
  BY DEF NewRows, TypeOK
<1>2. Cardinality(new) \in Nat /\ Cardinality(run[r].batch \ new) \in Nat
  BY <1>1, FS_Subset, FS_CardinalityType
<1>3. rates' = rates \cup new /\ Become(r, NextWindow(rec))
  BY DEF StoreBatch
<1>4. UNCHANGED <<today, released, upstream, capSkipped>>
  BY DEF StoreBatch
<1>5. new \subseteq Observation
  BY <1>1 DEF RunState
<1> HIDE DEF new
<1>6. rec \in RunState
  <2>1. \A i, k \in Nat : [run[r] EXCEPT !.inserted = i, !.skipped = k] \in RunState
    BY <1>1 DEF RunState
  <2>2. /\ run[r].inserted + Cardinality(new) \in Nat
        /\ run[r].skipped + Cardinality(run[r].batch \ new) \in Nat
    BY <1>1, <1>2 DEF RunState
  <2> QED  BY <2>1, <2>2
<1> HIDE DEF rec
<1> QED  BY <1>3, <1>4, <1>5, <1>6, NextWindowType, BecomeType DEF TypeOK

(* The remaining steps of a run.                                           *)
LEMMA RunStepType ==
    ASSUME TypeOK, NEW r \in Runs,
           run[r].pc = "storing" => IsFiniteSet(run[r].batch),
           Launch(r) \/ Progress(r) \/ Cancel(r) \/ Crash(r)
    PROVE  TypeOK'
<1>0. run[r] \in RunState
  BY DEF TypeOK
<1>1. ASSUME NEW rec \in RunState, Become(r, rec),
             UNCHANGED <<today, released, upstream, rates, capSkipped>>
      PROVE  TypeOK'
  BY <1>1, BecomeType DEF TypeOK
<1>2. CASE Launch(r)
  <2>1. PICK m \in Modes : Become(r, [run[r] EXCEPT !.pc = "loading", !.mode = m])
    BY <1>2 DEF Launch
  <2>2. [run[r] EXCEPT !.pc = "loading", !.mode = m] \in RunState
    BY <1>0 DEF RunState
  <2> QED  BY <1>1, <1>2, <2>1, <2>2 DEF Launch
<1>3. CASE LoadLastSynced(r)
  <2>1. PICK d \in {row.date : row \in rates} \cup {NoDate} :
            Become(r, [run[r] EXCEPT !.pc = "planning", !.lastSynced = d,
                                     !.lastSyncedAfter = d])
    BY <1>3 DEF LoadLastSynced
  <2>2. d \in Nat
    BY DEF TypeOK, Observation
  <2>3. [run[r] EXCEPT !.pc = "planning", !.lastSynced = d,
                       !.lastSyncedAfter = d] \in RunState
    BY <1>0, <2>2 DEF RunState
  <2> QED  BY <1>1, <1>3, <2>1, <2>3 DEF LoadLastSynced
<1>4. CASE LoadFails(r)
  <2>1. [run[r] EXCEPT !.pc = "aborted"] \in RunState
    BY <1>0 DEF RunState
  <2> QED  BY <1>1, <1>4, <2>1 DEF LoadFails
<1>5. CASE Plan(r)
  <2> DEFINE after == GetStartDate(CoverageStart, run[r].lastSynced)
             start == AdjustStartForMode(after, today, run[r].mode, DailySyncLookback)
  <2>1. after \in Nat /\ start \in Int
    BY <1>0, BackfillAssumption
       DEF GetStartDate, AdjustStartForMode, MaxDate, RunState, TypeOK
  <2>2. start \in Nat
    BY <2>1, <1>0, BackfillAssumption
       DEF GetStartDate, AdjustStartForMode, MaxDate, RunState, TypeOK
  <2> HIDE DEF after, start
  <2>3. [run[r] EXCEPT !.pc = "done", !.horizon = today, !.status = "up_to_date"]
            \in RunState
    BY <1>0 DEF RunState, Statuses, TypeOK
  <2>4. [run[r] EXCEPT !.pc = "starting", !.horizon = today, !.cursor = start]
            \in RunState
    BY <1>0, <2>2 DEF RunState, TypeOK
  <2>5. capSkipped \cup ((after + 1)..start) \subseteq Nat
    BY <2>1, <2>2 DEF TypeOK
  <2> QED  BY <1>5, <2>3, <2>4, <2>5, BecomeType DEF Plan, TypeOK, after, start
<1>6. CASE StartFetch(r)
  <2>1. [run[r] EXCEPT !.horizon = today] \in RunState
    BY <1>0 DEF RunState, TypeOK
  <2>2. [run[r] EXCEPT !.pc = "windowing", !.horizon = today] \in RunState
    BY <1>0 DEF RunState, TypeOK
  <2> QED  BY <1>1, <1>6, <2>1, <2>2, FinalizeType DEF StartFetch
<1>7. CASE OpenWindow(r)
  <2> DEFINE after == FetchAfter(run[r].cursor)
             upto  == WindowUpto(after, run[r].horizon, BackfillRange)
  <2>1. after \in Nat
    BY <1>0 DEF FetchAfter, RunState
  <2>2. upto \in Nat
    BY <1>0, <2>1, BackfillAssumption DEF WindowUpto, RunState
  <2> HIDE DEF after, upto
  <2>3. [run[r] EXCEPT !.pc = "fetching", !.after = after, !.retries = 0,
                       !.upto = upto] \in RunState
    BY <1>0, <2>1, <2>2 DEF RunState
  <2> QED  BY <1>1, <1>7, <2>3 DEF OpenWindow, after, upto
<1>8. CASE StopAtWindow(r) \/ BackoffCancelled(r)
  BY <1>0, <1>1, <1>8, ClassifyType DEF StopAtWindow, BackoffCancelled
<1>9. CASE FetchRecords(r)
  BY <1>9, FetchRecordsType
<1>10. CASE RetryFetch(r)
  <2>1. run[r].retries + 1 \in Nat
    BY <1>0 DEF RunState
  <2>2. \A n \in Nat : [run[r] EXCEPT !.pc = "backoff", !.retries = n] \in RunState
    BY <1>0 DEF RunState
  <2> QED  BY <1>1, <1>10, <2>1, <2>2 DEF RetryFetch
<1>11. CASE GiveUp(r)
  BY <1>0, <1>1, <1>11, ClassifyType DEF GiveUp
<1>12. CASE BackoffElapsed(r)
  <2>1. [run[r] EXCEPT !.pc = "fetching"] \in RunState
    BY <1>0 DEF RunState
  <2> QED  BY <1>1, <1>12, <2>1 DEF BackoffElapsed
<1>13. CASE StoreBatch(r)
  BY <1>13, StoreBatchType DEF StoreBatch
<1>14. NewRows(run[r].batch) \subseteq Observation
  BY <1>0 DEF NewRows, RunState
<1>15. CASE StoreFails(r)
  <2>1. ClassifyFetchError(run[r], IF run[r].cancelled THEN "cancelled" ELSE "database")
            \in RunState
    BY <1>0, ClassifyType
  <2> QED  BY <1>14, <1>15, <2>1, BecomeType DEF StoreFails, TypeOK
<1>16. CASE Cancel(r)
  <2>1. [run[r] EXCEPT !.cancelled = TRUE] \in RunState
    BY <1>0 DEF RunState
  <2> QED  BY <1>1, <1>16, <2>1 DEF Cancel
<1>17. CASE Crash(r)
  <2>1. [NewRun EXCEPT !.pc = "crashed"] \in RunState
    BY NewRunType DEF RunState
  <2> QED  BY <1>14, <1>17, <2>1, BecomeType DEF Crash, TypeOK
<1> QED
  BY <1>2, <1>3, <1>4, <1>5, <1>6, <1>7, <1>8, <1>9, <1>10, <1>11, <1>12,
     <1>13, <1>15, <1>16, <1>17
  DEF Progress

-----------------------------------------------------------------------------
(* Every step grows what it touches.                                       *)
LEMMA TableGrows ==
    ASSUME TypeOK, UNCHANGED <<today, released, upstream>>,
           rates \subseteq rates', capSkipped \subseteq capSkipped'
    PROVE  Grows /\ Published' = Published
<1>1. Published' = Published
  BY DEF Published, ReleaseRows
<1>2. \A o \in Published : HasKey(Published, o) /\ ~ (o.date > released)
  BY PublishedType DEF HasKey, SameKey, TypeOK
<1> QED  BY <1>1, <1>2 DEF Grows, TypeOK

LEMMA EnvironmentStep ==
    ASSUME TypeOK, CalendarOK, Environment
    PROVE  TypeOK' /\ CalendarOK' /\ Grows
<1>1. CASE PublishRelease
  <2>1. PICK rel \in Releases :
            upstream' = [day \in 1..(released + 1) |->
                            IF day = released + 1 THEN rel ELSE upstream[day]]
    BY <1>1 DEF PublishRelease
  <2>2. released' = released + 1 /\ released < today /\ today' = today
    BY <1>1 DEF PublishRelease
  <2>3. rel \in [Quotes -> Nat]
    BY BackfillAssumption
  <2>4. TypeOK'
    BY <1>1, <2>1, <2>2, <2>3 DEF PublishRelease, TypeOK
  <2>5. CalendarOK'
    BY <2>2 DEF CalendarOK, TypeOK
  <2>6. released + 1 = today
    BY <2>2 DEF CalendarOK, TypeOK
  <2>7. \A day \in 1..released : upstream'[day] = upstream[day]
    BY <2>1 DEF TypeOK
  <2>8. \A o \in Published : o \in Published'
    <3> SUFFICES ASSUME NEW o \in Published PROVE o \in Published'
      OBVIOUS
    <3>1. PICK day \in 1..released, q \in Quotes :
              /\ o = [date |-> day, quote |-> q, rate |-> upstream[day][q]]
              /\ upstream[day][q] > 0
      BY PublishedDef
    <3>2. day \in 1..released' /\ upstream'[day][q] = upstream[day][q]
      BY <2>2, <2>7 DEF TypeOK
    <3> QED  BY <3>1, <3>2 DEF Published, ReleaseRows
  <2>9. ASSUME NEW o \in Published'
        PROVE  o \in Published \/ o.date = today
    <3>1. PICK day \in 1..released', q \in Quotes :
              /\ o = [date |-> day, quote |-> q, rate |-> (upstream')[day][q]]
              /\ o.rate > 0
      BY DEF Published, ReleaseRows
    <3>2. CASE day = released + 1
      BY <2>6, <3>1, <3>2
    <3>3. CASE day \in 1..released
      BY <2>7, <3>1, <3>3 DEF Published, ReleaseRows
    <3> QED  BY <2>2, <3>2, <3>3 DEF TypeOK
  <2>10. \A o \in Published : HasKey(Published', o)
    BY <2>8 DEF HasKey, SameKey
  <2>11. \A o \in Published' : HasKey(Published, o) \/ o.date > released
    BY <2>6, <2>9 DEF HasKey, SameKey, TypeOK
  <2>12. \A o \in Published' : o.date > released => o.date >= today
    BY <2>6, <2>9, PublishedType DEF TypeOK
  <2> QED  BY <1>1, <2>2, <2>4, <2>5, <2>10, <2>11, <2>12
           DEF Grows, PublishRelease, TypeOK
<1>2. CASE Revise
  <2>1. PICK day \in 1..released, q \in Quotes :
            /\ 0 < upstream[day][q]
            /\ upstream' = [upstream EXCEPT ![day][q] = @ + 1]
    BY <1>2 DEF Revise
  <2>2. UNCHANGED <<today, released, rates, capSkipped, run>>
    BY <1>2 DEF Revise
  <2>3. upstream[day] \in [Quotes -> Nat] /\ upstream[day][q] + 1 \in Nat
    BY DEF TypeOK
  <2>4. upstream' \in [1..released -> [Quotes -> Nat]]
    BY <2>1, <2>3 DEF TypeOK
  <2>5. \A e \in 1..released, p \in Quotes :
            upstream'[e][p] > 0 <=> upstream[e][p] > 0
    BY <2>1, <2>3 DEF TypeOK
  <2>6. ASSUME NEW o \in Published PROVE HasKey(Published', o)
    <3>1. PICK e \in 1..released, p \in Quotes :
              /\ o = [date |-> e, quote |-> p, rate |-> upstream[e][p]]
              /\ upstream[e][p] > 0
      BY PublishedDef
    <3> DEFINE n == [date |-> e, quote |-> p, rate |-> upstream'[e][p]]
    <3>2. n \in Published'
      BY <2>2, <2>5, <3>1 DEF Published, ReleaseRows
    <3> QED  BY <3>1, <3>2 DEF HasKey, SameKey
  <2>7. ASSUME NEW o \in Published' PROVE HasKey(Published, o) /\ o.date \in 1..released
    <3>1. PICK e \in 1..released, p \in Quotes :
              /\ o = [date |-> e, quote |-> p, rate |-> (upstream')[e][p]]
              /\ o.rate > 0
      BY <2>2 DEF Published, ReleaseRows
    <3> DEFINE n == [date |-> e, quote |-> p, rate |-> upstream[e][p]]
    <3>2. n \in Published
      BY <2>5, <3>1 DEF Published, ReleaseRows
    <3> QED  BY <3>1, <3>2 DEF HasKey, SameKey
  <2> QED  BY <2>2, <2>4, <2>6, <2>7 DEF Grows, TypeOK, CalendarOK
<1>3. CASE Midnight
  <2>1. /\ released = today /\ today' = today + 1
        /\ UNCHANGED <<released, upstream, rates, capSkipped, run>>
    BY <1>3 DEF Midnight
  <2>2. Published' = Published
    BY <2>1 DEF Published, ReleaseRows
  <2>3. \A o \in Published : HasKey(Published, o) /\ ~ (o.date > released)
    BY PublishedType DEF HasKey, SameKey, TypeOK
  <2> QED  BY <2>1, <2>2, <2>3 DEF Grows, TypeOK, CalendarOK
<1> QED  BY <1>1, <1>2, <1>3 DEF Environment

-----------------------------------------------------------------------------
(* What a window contributes: once its rows up to d are in the table, the  *)
(* table is complete up to d.                                              *)
LEMMA WindowCovered ==
    ASSUME TypeOK, NEW r \in Runs, RunOK(r), run[r].pc \in WindowPcs,
           NEW d \in Int, run[r].upto = NoDate \/ d <= run[r].upto,
           NEW rows, rates \subseteq rows,
           \A o \in Published :
               (/\ Storable(o) /\ o.date <= d
                /\ InWindow(o.date, run[r].after, run[r].upto)) => HasKey(rows, o)
    PROVE  Covers(rows, Published, CoverageStart, d, capSkipped)
<1>1. run[r] \in RunState
  BY DEF TypeOK
<1> SUFFICES ASSUME NEW o \in Published,
                    Storable(o), CoverageStart < o.date, o.date <= d,
                    o.date \notin capSkipped
             PROVE  HasKey(rows, o)
  BY DEF Covers
<1>2. o.date \in Nat
  BY PublishedType DEF Observation
<1>3. /\ run[r].cursor \in Nat /\ run[r].after = FetchAfter(run[r].cursor)
      /\ run[r].upto \in Nat
      /\ CompleteThrough(run[r].cursor)
  BY <1>1 DEF RunOK, WindowPcs, CursorPcs, RunState
<1>4. CASE o.date <= run[r].cursor
  <2>1. HasKey(rates, o)
    BY <1>3, <1>4 DEF CompleteThrough, Covers
  <2> QED  BY <2>1 DEF HasKey
<1>5. CASE ~ (o.date <= run[r].cursor)
  <2>1. InWindow(o.date, run[r].after, run[r].upto)
    BY <1>2, <1>3, <1>5 DEF InWindow, FetchAfter
  <2> QED  BY <2>1
<1> QED  BY <1>4, <1>5

(* The foot of the loop keeps the invariant when the window is covered.    *)
LEMMA NextWindowOK ==
    ASSUME TypeOK, today' = today, NEW r \in Runs, NEW rec \in RunState,
           run'[r] = NextWindow(rec),
           rec.status = "none", rec.horizon <= today,
           rec.upto = NoDate =>
               Covers(rates', Published', CoverageStart, rec.horizon - 1, capSkipped'),
           rec.upto # NoDate =>
               /\ rec.upto < rec.horizon
               /\ Covers(rates', Published', CoverageStart, rec.upto, capSkipped')
    PROVE  RunOK(r)'
<1>1. CASE rec.upto = NoDate
  <2>1. /\ run'[r].pc = "done" /\ run'[r].horizon = rec.horizon
    BY <1>1 DEF NextWindow, FinalizeSuccess, Return, RunState
  <2> QED
    BY <1>1, <2>1 DEF RunOK, CompleteThrough, LivePcs, CursorPcs, WindowPcs
<1>2. CASE rec.upto # NoDate
  <2>1. /\ run'[r].pc = "windowing" /\ run'[r].horizon = rec.horizon
        /\ run'[r].cursor = rec.upto /\ run'[r].status = "none"
    BY <1>2 DEF NextWindow, RunState
  <2> QED
    BY <1>2, <2>1 DEF RunOK, CompleteThrough, LivePcs, CursorPcs, WindowPcs
<1> QED  BY <1>1, <1>2

(* Storing the batch of a window covers the window up to the horizon, and  *)
(* up to each of the rows it adds.                                         *)
LEMMA CommitOK ==
    ASSUME TypeOK, CalendarOK, NEW r \in Runs, RunOK(r), run[r].pc = "storing",
           UNCHANGED <<today, released, upstream, capSkipped>>,
           rates' = rates \cup NewRows(run[r].batch)
    PROVE  /\ \A row \in rates' \ rates :
                  /\ Storable(row) /\ HasKey(Published, row) /\ ~ HasKey(rates, row)
                  /\ row \in run[r].batch
                  /\ Covers(rates', Published', CoverageStart, row.date, capSkipped')
           /\ run[r].upto = NoDate =>
                  Covers(rates', Published', CoverageStart,
                         run[r].horizon - 1, capSkipped')
           /\ run[r].upto # NoDate =>
                  /\ run[r].upto < run[r].horizon
                  /\ Covers(rates', Published', CoverageStart, run[r].upto, capSkipped')
<1> DEFINE b == run[r].batch
           h == run[r].horizon
           u == run[r].upto
<1>1. run[r] \in RunState /\ run[r].pc \in WindowPcs
  BY DEF TypeOK, WindowPcs
<1>2. Published' = Published
  BY DEF Published, ReleaseRows
<1>3. BatchOK(r) /\ u \in Nat /\ h \in Nat
  BY <1>1 DEF RunOK, RunState
<1>4. \A o : HasKey(b, o) => HasKey(rates', o)
  BY DEF HasKey, NewRows, SameKey
<1>5. \A x \in Published : x.date \in Nat
  BY PublishedType DEF Observation
<1>6. ASSUME NEW d \in Int, u = NoDate \/ d <= u,
             d < h \/ \E x \in b : d <= x.date
      PROVE  Covers(rates', Published', CoverageStart, d, capSkipped')
  <2>1. ASSUME NEW o \in Published, Storable(o), o.date <= d,
               InWindow(o.date, run[r].after, u)
        PROVE  HasKey(rates', o)
    <3>1. CASE d < h
      <4>1. o.date < h
        BY <2>1, <3>1, <1>3, <1>5
      <4>2. HasKey(b, o)
        BY <2>1, <4>1, <1>3 DEF BatchOK
      <4> QED  BY <4>2, <1>4
    <3>2. CASE \E x \in b : d <= x.date
      <4>1. PICK x \in b : d <= x.date
        BY <3>2
      <4>2. x.date \in Nat
        BY <1>1 DEF RunState, Observation
      <4>3. o.date <= x.date
        BY <2>1, <4>1, <4>2, <1>5
      <4>4. HasKey(b, o)
        BY <2>1, <4>3, <1>3 DEF BatchOK
      <4> QED  BY <4>4, <1>4
    <3> QED  BY <1>6, <3>1, <3>2
  <2>2. Covers(rates', Published, CoverageStart, d, capSkipped)
    BY <1>1, <1>6, <2>1, WindowCovered
  <2> QED  BY <1>2, <2>2
<1>7. ASSUME NEW row \in rates' \ rates
      PROVE  /\ Storable(row) /\ HasKey(Published, row) /\ ~ HasKey(rates, row)
             /\ row \in b
             /\ Covers(rates', Published', CoverageStart, row.date, capSkipped')
  <2>1. row \in b /\ ~ HasKey(rates, row)
    BY DEF NewRows
  <2>2. row.date \in Nat
    BY <1>1, <2>1 DEF RunState, Observation
  <2>3. /\ Storable(row) /\ HasKey(Published, row)
        /\ InWindow(row.date, run[r].after, u)
    BY <1>3, <2>1 DEF BatchOK
  <2>4. u = NoDate \/ row.date <= u
    BY <2>3 DEF InWindow
  <2>5. \E x \in b : row.date <= x.date
    BY <2>1, <2>2
  <2>6. Covers(rates', Published', CoverageStart, row.date, capSkipped')
    BY <1>6, <2>2, <2>4, <2>5
  <2> QED  BY <2>1, <2>3, <2>6
<1>8. ASSUME u # NoDate PROVE u < h
  BY <1>1, <1>3, <1>8 DEF RunOK, WindowUpto
<1>9. u = NoDate => Covers(rates', Published', CoverageStart, h - 1, capSkipped')
  <2>1. h - 1 \in Int /\ h - 1 < h
    BY <1>3
  <2> HIDE DEF h, u, b
  <2> QED  BY <2>1, <1>6
<1>10. u # NoDate => u < h /\ Covers(rates', Published', CoverageStart, u, capSkipped')
  BY <1>3, <1>6, <1>8
<1> QED  BY <1>7, <1>9, <1>10

(* Asking for everything a window has and getting nothing to store covers  *)
(* the window; getting something makes it a batch.                         *)
LEMMA FetchRecordsOK ==
    ASSUME TypeOK, TypeOK', CalendarOK, NEW r \in Runs, RunOK(r), FetchRecords(r)
    PROVE  RunOK(r)'
<1> DEFINE records == Fetched(run[r].after, run[r].upto)
           valid   == {o \in records : Storable(o)}
           seen(newest) == [run[r] EXCEPT
                              !.batch = valid,
                              !.fetched = @ + Cardinality(records),
                              !.maxSeen = MaxDate(@, newest)]
<1>1. /\ run[r].pc = "fetching"
      /\ UNCHANGED <<today, released, upstream, rates, capSkipped>>
      /\ run[r] \in RunState /\ run[r].pc \in WindowPcs
  BY DEF FetchRecords, TypeOK, WindowPcs
<1>2. PICK newest \in {o.date : o \in valid} \cup {NoDate} :
          run'[r] = IF valid = {} THEN NextWindow(seen(newest))
                    ELSE [seen(newest) EXCEPT !.pc = "storing"]
  BY DEF FetchRecords, Become, TypeOK
<1>3. Published' = Published
  BY <1>1 DEF Published, ReleaseRows
<1>4. /\ run[r].horizon <= today /\ run[r].status = "none"
      /\ run[r].cursor < run[r].horizon /\ CompleteThrough(run[r].cursor)
      /\ run[r].after = FetchAfter(run[r].cursor)
      /\ run[r].upto = WindowUpto(run[r].after, run[r].horizon, BackfillRange)
      /\ run[r].horizon \in Nat /\ run[r].upto \in Nat
  BY <1>1 DEF RunOK, LivePcs, CursorPcs, WindowPcs, RunState
<1>5. IsFiniteSet(valid)
  BY PublishedFinite, FS_Subset DEF Fetched
<1>6. CASE valid # {}
  <2>1. run'[r] = [seen(newest) EXCEPT !.pc = "storing"]
    BY <1>2, <1>6
  <2>2. /\ run'[r].pc = "storing" /\ run'[r].batch = valid
        /\ run'[r].status = run[r].status /\ run'[r].horizon = run[r].horizon
        /\ run'[r].cursor = run[r].cursor
        /\ run'[r].after = run[r].after /\ run'[r].upto = run[r].upto
    BY <1>1, <2>1 DEF RunState
  <2>3. KeysUnique(valid)
    BY PublishedKeysUnique DEF KeysUnique, Fetched
  <2>4. BatchOK(r)'
    BY <1>3, <1>5, <2>2, <2>3 DEF BatchOK, Fetched, HasKey, SameKey
  <2> QED
    BY <1>1, <1>3, <1>4, <2>2, <2>4
    DEF RunOK, CompleteThrough, LivePcs, CursorPcs, WindowPcs
<1>7. CASE valid = {}
  <2>1. run'[r] = NextWindow(seen(newest))
    BY <1>2, <1>7
  <2>2. seen(newest) \in RunState
    <3>1. records \subseteq Published /\ valid \subseteq Observation
      BY PublishedType DEF Fetched
    <3>2. Cardinality(records) \in Nat
      BY <3>1, PublishedFinite, FS_Subset, FS_CardinalityType
    <3>3. /\ run[r].fetched + Cardinality(records) \in Nat
          /\ MaxDate(run[r].maxSeen, newest) \in Nat
      BY <1>1, <3>1, <3>2 DEF RunState, MaxDate, Observation
    <3>4. \A b \in SUBSET Observation : \A f, m \in Nat :
              [run[r] EXCEPT !.batch = b, !.fetched = f, !.maxSeen = m] \in RunState
      BY <1>1 DEF RunState
    <3> QED  BY <3>1, <3>3, <3>4
  <2>3. /\ seen(newest).status = "none" /\ seen(newest).horizon = run[r].horizon
        /\ seen(newest).upto = run[r].upto
    BY <1>1, <1>4 DEF RunState
  <2>4. ASSUME NEW d \in Int, run[r].upto = NoDate \/ d <= run[r].upto
        PROVE  Covers(rates', Published', CoverageStart, d, capSkipped')
    <3>1. ASSUME NEW o \in Published, Storable(o),
                 InWindow(o.date, run[r].after, run[r].upto)
          PROVE  FALSE
      BY <1>7, <3>1 DEF Fetched
    <3>2. Covers(rates, Published, CoverageStart, d, capSkipped)
      BY <1>1, <2>4, <3>1, WindowCovered
    <3> QED  BY <1>1, <1>3, <3>2
  <2>5. run[r].upto # NoDate => run[r].upto < run[r].horizon
    BY <1>4 DEF WindowUpto
  <2> HIDE DEF seen
  <2> QED
    BY <1>1, <1>4, <2>1, <2>2, <2>3, <2>4, <2>5, NextWindowOK
<1> QED  BY <1>6, <1>7

(* Deciding where to start gives up the days before the start, or finds    *)
(* nothing missing before today.                                           *)
LEMMA PlanOK ==
    ASSUME TypeOK, CalendarOK, NEW r \in Runs, RunOK(r), Plan(r)
    PROVE  RunOK(r)'
<1> DEFINE after == GetStartDate(CoverageStart, run[r].lastSynced)
           start == AdjustStartForMode(after, today, run[r].mode, DailySyncLookback)
<1>1. /\ run[r].pc = "planning" /\ run[r] \in RunState
      /\ UNCHANGED <<today, released, upstream, rates>>
  BY DEF Plan, TypeOK
<1>2. Published' = Published
  BY <1>1 DEF Published, ReleaseRows
<1>3. /\ run[r].status = "none" /\ run[r].lastSynced \in Nat
      /\ CompleteThrough(run[r].lastSynced)
  BY <1>1 DEF RunOK, LivePcs, RunState
<1>4. \A o \in Published : o.date \in Nat
  BY PublishedType DEF Observation
<1>5. after \in Nat /\ CompleteThrough(after)
  BY <1>3, <1>4, BackfillAssumption DEF GetStartDate, CompleteThrough, Covers
<1>6. CASE /\ IsUpToDate(after, today)
           /\ run'[r] = [run[r] EXCEPT !.pc = "done", !.horizon = today,
                                       !.status = "up_to_date"]
           /\ capSkipped' = capSkipped
  <2>1. run'[r].pc = "done" /\ run'[r].horizon = today
    BY <1>1, <1>6 DEF RunState
  <2>2. Covers(rates, Published, CoverageStart, today - 1, capSkipped)
    BY <1>4, <1>5, <1>6 DEF IsUpToDate, CompleteThrough, Covers, TypeOK
  <2> QED
    BY <1>1, <1>2, <1>6, <2>1, <2>2
    DEF RunOK, CompleteThrough, LivePcs, CursorPcs, WindowPcs, TypeOK
<1>7. CASE /\ ~ IsUpToDate(after, today)
           /\ run'[r] = [run[r] EXCEPT !.pc = "starting", !.horizon = today,
                                       !.cursor = start]
           /\ capSkipped' = capSkipped \cup ((after + 1)..start)
  <2>1. /\ run'[r].pc = "starting" /\ run'[r].horizon = today
        /\ run'[r].cursor = start /\ run'[r].status = "none"
    BY <1>1, <1>3, <1>7 DEF RunState
  <2>2. today \in Nat /\ 0 < today /\ DailySyncLookback \in Nat
    BY BackfillAssumption DEF CalendarOK, TypeOK
  <2>3. start \in Int
    BY <1>5, BackfillAssumption DEF AdjustStartForMode, MaxDate, TypeOK
  <2>4. Covers(rates, Published, CoverageStart, start, capSkipped')
    <3> SUFFICES ASSUME NEW o \in Published, Storable(o), CoverageStart < o.date,
                        o.date <= start, o.date \notin capSkipped'
                 PROVE  HasKey(rates, o)
      BY DEF Covers
    <3> HIDE DEF after, start
    <3>1. o.date <= after /\ o.date \notin capSkipped
      BY <1>4, <1>5, <1>7, <2>3
    <3> QED  BY <1>5, <3>1 DEF CompleteThrough, Covers
  <2>5. start < today
    <3>1. after < today
      BY <1>5, <1>7, <2>2 DEF IsUpToDate
    <3> HIDE DEF after
    <3> QED  BY <1>5, <2>2, <3>1 DEF AdjustStartForMode, MaxDate
  <2> HIDE DEF start
  <2> QED
    BY <1>1, <1>2, <2>1, <2>4, <2>5
    DEF RunOK, CompleteThrough, LivePcs, CursorPcs, WindowPcs, TypeOK
<1> QED  BY <1>6, <1>7 DEF Plan, Become, TypeOK

(* A run that ends without success, or moves without touching cursor,      *)
(* window or table, keeps its part of the invariant.                       *)
LEMMA QuietRunOK ==
    ASSUME TypeOK, CalendarOK, RowsPublished, NoSilentGap,
           NEW r \in Runs, RunOK(r),
           \/ Launch(r) \/ LoadLastSynced(r) \/ LoadFails(r) \/ StartFetch(r)
           \/ OpenWindow(r) \/ StopAtWindow(r) \/ RetryFetch(r) \/ GiveUp(r)
           \/ BackoffElapsed(r) \/ BackoffCancelled(r) \/ Cancel(r)
    PROVE  RunOK(r)'
<1>1. /\ run[r] \in RunState
      /\ UNCHANGED <<today, released, upstream, rates, capSkipped>>
  BY DEF TypeOK, Launch, LoadLastSynced, LoadFails, StartFetch, OpenWindow,
         StopAtWindow, RetryFetch, GiveUp, BackoffElapsed, BackoffCancelled, Cancel
<1>2. \A d : CompleteThrough(d) <=>
              Covers(rates', Published', CoverageStart, d, capSkipped')
  BY <1>1 DEF CompleteThrough, Published, ReleaseRows
<1>3. \A rec : Become(r, rec) => run'[r] = rec
  BY DEF Become, TypeOK
<1>4. CASE LoadLastSynced(r)
  <2>1. PICK d \in {row.date : row \in rates} \cup {NoDate} :
            run'[r] = [run[r] EXCEPT !.pc = "planning", !.lastSynced = d,
                                     !.lastSyncedAfter = d]
    BY <1>3, <1>4 DEF LoadLastSynced
  <2>2. /\ run'[r].pc = "planning" /\ run'[r].lastSynced = d
        /\ run'[r].status = "none" /\ run'[r].horizon = run[r].horizon
    BY <1>1, <1>4, <2>1 DEF LoadLastSynced, RunOK, LivePcs, RunState
  <2>3. \A o \in Published : o.date \in 1..released
    BY PublishedType
  <2>4. d <= released /\ CompleteThrough(d)
    <3>1. CASE d = NoDate
      BY <2>3, <3>1, BackfillAssumption DEF CompleteThrough, Covers, TypeOK
    <3>2. CASE d \in {row.date : row \in rates}
      BY <2>3, <3>2 DEF NoSilentGap, RowsPublished, HasKey, SameKey
    <3> QED  BY <3>1, <3>2
  <2> QED
    BY <1>1, <1>2, <2>2, <2>4
    DEF RunOK, CompleteThrough, LivePcs, CursorPcs, WindowPcs
<1>5. CASE StartFetch(r)
  <2>1. /\ run[r].pc = "starting" /\ run[r].status = "none"
        /\ run[r].cursor \in Nat /\ run[r].horizon \in Nat
        /\ run[r].cursor < run[r].horizon /\ run[r].horizon <= today
        /\ CompleteThrough(run[r].cursor)
    BY <1>1, <1>5 DEF StartFetch, RunOK, LivePcs, CursorPcs, RunState
  <2>2. ~ IsUpToDate(run[r].cursor, today)
    BY <2>1 DEF IsUpToDate, TypeOK
  <2>3. run'[r] = [run[r] EXCEPT !.pc = "windowing", !.horizon = today]
    BY <1>3, <1>5, <2>2 DEF StartFetch
  <2>4. /\ run'[r].pc = "windowing" /\ run'[r].horizon = today
        /\ run'[r].cursor = run[r].cursor /\ run'[r].status = "none"
    BY <1>1, <2>1, <2>3 DEF RunState
  <2> QED
    BY <1>1, <1>2, <2>1, <2>4
    DEF RunOK, CompleteThrough, LivePcs, CursorPcs, WindowPcs, TypeOK
<1>6. CASE OpenWindow(r)
  <2>1. run'[r] = [run[r] EXCEPT
                     !.pc = "fetching", !.after = FetchAfter(run[r].cursor),
                     !.retries = 0,
                     !.upto = WindowUpto(FetchAfter(run[r].cursor),
                                         run[r].horizon, BackfillRange)]
    BY <1>3, <1>6 DEF OpenWindow
  <2>2. /\ run'[r].pc = "fetching" /\ run'[r].status = run[r].status
        /\ run'[r].horizon = run[r].horizon /\ run'[r].cursor = run[r].cursor
        /\ run'[r].after = FetchAfter(run'[r].cursor)
        /\ run'[r].upto = WindowUpto(run'[r].after, run'[r].horizon, BackfillRange)
    BY <1>1, <2>1 DEF RunState
  <2> QED
    BY <1>1, <1>2, <1>6, <2>2
    DEF OpenWindow, RunOK, CompleteThrough, LivePcs, CursorPcs, WindowPcs
<1>7. CASE LoadFails(r) \/ StopAtWindow(r) \/ GiveUp(r) \/ BackoffCancelled(r)
  <2>1. /\ run'[r].pc \in {"done", "aborted"}
        /\ run'[r].status \notin {"success", "empty", "up_to_date"}
        /\ run'[r].horizon = run[r].horizon
    <3>1. CASE LoadFails(r)
      <4>1. run'[r] = [run[r] EXCEPT !.pc = "aborted"] /\ run[r].status = "none"
        BY <1>3, <3>1 DEF LoadFails, RunOK, LivePcs
      <4> QED  BY <1>1, <4>1 DEF RunState
    <3>2. CASE StopAtWindow(r) \/ GiveUp(r) \/ BackoffCancelled(r)
      <4>1. \E e : run'[r] = ClassifyFetchError(run[r], e)
        BY <1>3, <3>2 DEF StopAtWindow, GiveUp, BackoffCancelled
      <4> QED  BY <1>1, <4>1, ClassifyEnds
    <3> QED  BY <1>7, <3>1, <3>2
  <2> QED
    BY <1>1, <2>1 DEF RunOK, LivePcs, CursorPcs, WindowPcs
<1>8. CASE Launch(r) \/ RetryFetch(r) \/ BackoffElapsed(r) \/ Cancel(r)
  <2>1. /\ run'[r].status = run[r].status /\ run'[r].horizon = run[r].horizon
        /\ run'[r].cursor = run[r].cursor /\ run'[r].after = run[r].after
        /\ run'[r].upto = run[r].upto /\ run'[r].batch = run[r].batch
        /\ run'[r].lastSynced = run[r].lastSynced
    BY <1>1, <1>3, <1>8 DEF Launch, RetryFetch, BackoffElapsed, Cancel, RunState
  <2>2. \/ run[r].pc = "idle" /\ run'[r].pc = "loading"
        \/ run[r].pc \in {"fetching", "backoff"} /\ run'[r].pc \in {"fetching", "backoff"}
        \/ run[r].pc \in LivePcs /\ run'[r].pc = run[r].pc
    BY <1>1, <1>3, <1>8
    DEF Launch, RetryFetch, BackoffElapsed, Cancel, Live, RunState
  <2>3. BatchOK(r) => BatchOK(r)'
    BY <1>1, <2>1 DEF BatchOK, Published, ReleaseRows
  <2> QED
    BY <1>1, <1>2, <2>1, <2>2, <2>3
    DEF RunOK, CompleteThrough, LivePcs, CursorPcs, WindowPcs
<1> QED  BY <1>4, <1>5, <1>6, <1>7, <1>8

(* A step of a run, whichever it is.                                       *)
LEMMA RunStep ==
    ASSUME TypeOK, TypeOK', CalendarOK, RowsPublished, NoSilentGap,
           NEW r \in Runs, RunOK(r),
           Launch(r) \/ Progress(r) \/ Cancel(r) \/ Crash(r)
    PROVE  /\ UNCHANGED <<today, released, upstream>>
           /\ Grows
           /\ \A s \in Runs \ {r} : run'[s] = run[s]
           /\ RunOK(r)'
           /\ \A row \in rates' \ rates :
                 /\ Storable(row) /\ HasKey(Published, row) /\ ~ HasKey(rates, row)
                 /\ row \in run[r].batch /\ KeysUnique(run[r].batch)
                 /\ Covers(rates', Published', CoverageStart, row.date, capSkipped')
           /\ capSkipped' = capSkipped \/ rates' = rates
<1>0. run[r] \in RunState
  BY DEF TypeOK
<1>1. CASE \/ Launch(r) \/ LoadLastSynced(r) \/ LoadFails(r) \/ StartFetch(r)
           \/ OpenWindow(r) \/ StopAtWindow(r) \/ RetryFetch(r) \/ GiveUp(r)
           \/ BackoffElapsed(r) \/ BackoffCancelled(r) \/ Cancel(r)
  <2>1. UNCHANGED <<today, released, upstream, rates, capSkipped>>
    BY <1>1 DEF Launch, LoadLastSynced, LoadFails, StartFetch, OpenWindow,
           StopAtWindow, RetryFetch, GiveUp, BackoffElapsed, BackoffCancelled, Cancel
  <2>2. \A s \in Runs \ {r} : run'[s] = run[s]
    BY <1>1 DEF Launch, LoadLastSynced, LoadFails, StartFetch, OpenWindow,
           StopAtWindow, RetryFetch, GiveUp, BackoffElapsed, BackoffCancelled, Cancel,
           Become, TypeOK
  <2> QED  BY <1>1, <2>1, <2>2, QuietRunOK, TableGrows
<1>2. CASE Plan(r)
  <2>1. UNCHANGED <<today, released, upstream, rates>>
    BY <1>2 DEF Plan
  <2>2. capSkipped \subseteq capSkipped'
    BY <1>2 DEF Plan
  <2>3. \A s \in Runs \ {r} : run'[s] = run[s]
    BY <1>2 DEF Plan, Become, TypeOK
  <2> QED  BY <1>2, <2>1, <2>2, <2>3, PlanOK, TableGrows
<1>3. CASE FetchRecords(r)
  <2>1. UNCHANGED <<today, released, upstream, rates, capSkipped>>
    BY <1>3 DEF FetchRecords
  <2>2. \A s \in Runs \ {r} : run'[s] = run[s]
    BY <1>3 DEF FetchRecords, Become, TypeOK
  <2> QED  BY <1>3, <2>1, <2>2, FetchRecordsOK, TableGrows
<1>4. CASE StoreBatch(r)
  <2> DEFINE new == NewRows(run[r].batch)
             rec == [run[r] EXCEPT
                        !.inserted = @ + Cardinality(new),
                        !.skipped = @ + Cardinality(run[r].batch \ new)]
  <2>1. /\ UNCHANGED <<today, released, upstream, capSkipped>>
        /\ rates' = rates \cup new /\ run[r].pc = "storing"
        /\ run' = [run EXCEPT ![r] = NextWindow(rec)]
    BY <1>4 DEF StoreBatch, Become
  <2>2. \A s \in Runs \ {r} : run'[s] = run[s]
    BY <2>1 DEF TypeOK
  <2>3. BatchOK(r) /\ run[r].status = "none" /\ run[r].horizon <= today
    BY <2>1 DEF RunOK, LivePcs
  <2>4. rec \in RunState
    <3>1. /\ Cardinality(new) \in Nat
          /\ Cardinality(run[r].batch \ new) \in Nat
      BY <2>3, FS_Subset, FS_CardinalityType DEF BatchOK, NewRows
    <3>2. \A i, k \in Nat : [run[r] EXCEPT !.inserted = i, !.skipped = k] \in RunState
      BY <1>0 DEF RunState
    <3>3. /\ run[r].inserted + Cardinality(new) \in Nat
          /\ run[r].skipped + Cardinality(run[r].batch \ new) \in Nat
      BY <1>0, <3>1 DEF RunState
    <3> QED  BY <3>2, <3>3
  <2>5. /\ rec.status = "none" /\ rec.horizon = run[r].horizon
        /\ rec.upto = run[r].upto
    BY <1>0, <2>3 DEF RunState
  <2>6. run'[r] = NextWindow(rec)
    BY <2>1 DEF TypeOK
  <2> HIDE DEF rec
  <2>7. RunOK(r)'
    BY <2>1, <2>3, <2>4, <2>5, <2>6, CommitOK, NextWindowOK
  <2>8. Grows
    BY <2>1, TableGrows
  <2> QED  BY <2>1, <2>2, <2>3, <2>7, <2>8, CommitOK DEF BatchOK
<1>5. CASE StoreFails(r) \/ Crash(r)
  <2>1. PICK new \in {{}, NewRows(run[r].batch)} :
            /\ rates' = rates \cup new
            /\ run[r].pc # "storing" => new = {}
    BY <1>5 DEF StoreFails, Crash
  <2>2. UNCHANGED <<today, released, upstream, capSkipped>>
    BY <1>5 DEF StoreFails, Crash
  <2>3. Grows
    BY <2>1, <2>2, TableGrows
  <2>4. \A s \in Runs \ {r} : run'[s] = run[s]
    BY <1>5 DEF StoreFails, Crash, Become, TypeOK
  <2>5. /\ run'[r].pc \in {"done", "crashed"}
        /\ run'[r].status \notin {"success", "empty", "up_to_date"}
        /\ run'[r].horizon <= today
    <3>1. CASE StoreFails(r)
      <4>1. \E e : run'[r] = ClassifyFetchError(run[r], e)
        BY <3>1 DEF StoreFails, Become, TypeOK
      <4> QED  BY <1>0, <4>1, ClassifyEnds DEF RunOK
    <3>2. CASE Crash(r)
      <4>1. run'[r] = [NewRun EXCEPT !.pc = "crashed"]
        BY <3>2 DEF Crash, Become, TypeOK
      <4> QED  BY <4>1 DEF NewRun, TypeOK
    <3> QED  BY <1>5, <3>1, <3>2
  <2>6. RunOK(r)'
    BY <2>2, <2>5 DEF RunOK, LivePcs, CursorPcs, WindowPcs
  <2>7. CASE new = {}
    BY <2>1, <2>2, <2>3, <2>4, <2>6, <2>7
  <2>8. CASE new # {}
    <3>1. run[r].pc = "storing" /\ rates' = rates \cup NewRows(run[r].batch)
      BY <2>1, <2>8
    <3>2. KeysUnique(run[r].batch)
      BY <3>1 DEF RunOK, BatchOK
    <3> QED  BY <2>2, <2>3, <2>4, <2>6, <3>1, <3>2, CommitOK
  <2> QED  BY <2>7, <2>8
<1> QED  BY <1>1, <1>2, <1>3, <1>4, <1>5 DEF Progress

-----------------------------------------------------------------------------
(* The invariant is inductive.                                             *)
LEMMA InitIInv == Init => IInv
<1> SUFFICES ASSUME Init PROVE IInv
  OBVIOUS
<1>1. TypeOK
  BY NewRunType, BackfillAssumption DEF Init, TypeOK
<1>2. CalendarOK
  BY BackfillAssumption DEF Init, CalendarOK
<1>3. RowsPublished /\ NoSilentGap
  BY DEF Init, RowsPublished, NoSilentGap
<1>4. ASSUME NEW r \in Runs PROVE RunOK(r)
  <2>1. /\ run[r].pc = "idle" /\ run[r].status = "none" /\ run[r].horizon = 0
    BY DEF Init, NewRun
  <2> QED  BY <1>1, <2>1 DEF RunOK, TypeOK, LivePcs, CursorPcs, WindowPcs
<1> QED  BY <1>1, <1>2, <1>3, <1>4 DEF IInv

(* What the others leave alone, and the new rows, add up to the whole.     *)
LEMMA TableStep ==
    ASSUME IInv, TypeOK', Grows,
           \A row \in rates' \ rates :
               /\ Storable(row) /\ HasKey(Published, row)
               /\ Covers(rates', Published', CoverageStart, row.date, capSkipped')
    PROVE  RowsPublished' /\ NoSilentGap'
<1>1. \A o : HasKey(Published, o) => HasKey(Published', o)
  BY HasKeyGrows
<1>2. RowsPublished'
  BY <1>1 DEF RowsPublished, IInv
<1>3. ASSUME NEW row \in rates'
      PROVE  Covers(rates', Published', CoverageStart, row.date, capSkipped')
  <2>1. CASE row \in rates
    <3>1. row.date \in Int /\ row.date <= released
      BY <2>1, PublishedType DEF IInv, RowsPublished, HasKey, SameKey, TypeOK
    <3>2. CompleteThrough(row.date)
      BY <2>1 DEF IInv, NoSilentGap
    <3> QED  BY <3>1, <3>2, CompleteGrows DEF IInv, CompleteThrough
  <2>2. CASE row \notin rates
    BY <2>2
  <2> QED  BY <2>1, <2>2
<1>4. NoSilentGap'
  BY <1>3 DEF NoSilentGap, CompleteThrough
<1> QED  BY <1>2, <1>4

LEMMA NextIInv == IInv /\ [Next]_vars => IInv'
<1> SUFFICES ASSUME IInv, [Next]_vars PROVE IInv'
  OBVIOUS
<1> USE DEF IInv
<1>1. CASE Environment
  <2>1. TypeOK' /\ CalendarOK' /\ Grows
    BY <1>1, EnvironmentStep
  <2>2. rates' = rates /\ run' = run
    BY <1>1 DEF Environment, PublishRelease, Revise, Midnight
  <2>3. RowsPublished' /\ NoSilentGap'
    BY <2>1, <2>2, TableStep
  <2>4. \A r \in Runs : RunOK(r)'
    BY <2>1, <2>2, RunOKGrows
  <2> QED  BY <2>1, <2>3, <2>4
<1>2. ASSUME NEW r \in Runs, Launch(r) \/ Progress(r) \/ Cancel(r) \/ Crash(r)
      PROVE  IInv'
  <2>1. TypeOK'
    <3>1. run[r].pc = "storing" => IsFiniteSet(run[r].batch)
      BY DEF RunOK, BatchOK
    <3> QED  BY <1>2, <3>1, RunStepType
  <2>2. /\ UNCHANGED <<today, released, upstream>>
        /\ Grows
        /\ \A s \in Runs \ {r} : run'[s] = run[s]
        /\ RunOK(r)'
        /\ \A row \in rates' \ rates :
              /\ Storable(row) /\ HasKey(Published, row)
              /\ Covers(rates', Published', CoverageStart, row.date, capSkipped')
    BY <1>2, <2>1, RunStep
  <2>3. CalendarOK'
    BY <2>2 DEF CalendarOK
  <2>4. RowsPublished' /\ NoSilentGap'
    BY <2>1, <2>2, TableStep
  <2>5. \A s \in Runs \ {r} : RunOK(s)'
    BY <2>1, <2>2, RunOKGrows
  <2> QED  BY <2>1, <2>2, <2>3, <2>4, <2>5
<1>3. CASE UNCHANGED vars
  <2>1. UNCHANGED <<today, released, upstream, rates, capSkipped, run>>
    BY <1>3 DEF vars
  <2>2. TypeOK' /\ CalendarOK'
    BY <2>1 DEF TypeOK, CalendarOK
  <2>3. Grows
    BY <2>1, TableGrows
  <2>4. RowsPublished' /\ NoSilentGap'
    BY <2>1, <2>2, <2>3, TableStep
  <2>5. \A r \in Runs : RunOK(r)'
    BY <2>1, <2>2, <2>3, RunOKGrows
  <2> QED  BY <2>2, <2>4, <2>5
<1> QED  BY <1>1, <1>2, <1>3 DEF Next

(* IInv holds of every run of the job, for any set of overlapping runs,    *)
(* any release calendar, window size, cap and anchor.                      *)
THEOREM Invariance == Spec => []IInv
<1> QED  BY InitIInv, NextIInv, PTL DEF Spec

(* The variables keep their types.                                         *)
THEOREM TypeCorrect == Spec => []TypeOK
<1>1. IInv => TypeOK
  BY DEF IInv
<1> QED  BY <1>1, Invariance, PTL

(* The table never holds a row newer than a published observation that is  *)
(* missing, if its day is after coverage_start and was not given up by the *)
(* cap, so that resuming from MAX(date) loses nothing more (getStartDate,  *)
(* FetchEachObserved, bulkUpsertRates).                                    *)
THEOREM GapFreedom == Spec => []NoSilentGap
<1>1. IInv => NoSilentGap
  BY DEF IInv
<1> QED  BY <1>1, Invariance, PTL

(* A run that ends in success, empty or up_to_date leaves nothing missing  *)
(* after coverage_start and before the day it took for today, the days     *)
(* given up by the cap aside (finalizeSuccess, isUpToDate).                *)
THEOREM CaughtUp == Spec => []SuccessMeansCaughtUp
<1>1. IInv => SuccessMeansCaughtUp
  BY DEF IInv, RunOK, SuccessMeansCaughtUp
<1> QED  BY <1>1, Invariance, PTL

-----------------------------------------------------------------------------
(* The refinement of the abstract ledger.                                  *)
LEMMA LedgerInit == Init => Ledger!Init
BY DEF Init, Ledger!Init

LEMMA LedgerStep == IInv /\ IInv' /\ [Next]_vars => [Ledger!Next]_Ledger!vars
<1> SUFFICES ASSUME IInv, IInv', [Next]_vars
             PROVE  [Ledger!Next]_Ledger!vars
  OBVIOUS
<1> USE DEF Ledger!vars, Ledger!HasKey, Ledger!SameKey, HasKey, SameKey
<1>1. CASE Environment
  <2>1. Grows /\ UNCHANGED <<capSkipped, rates>>
    BY <1>1, EnvironmentStep
    DEF IInv, Environment, PublishRelease, Revise, Midnight
  <2>2. \A p \in Published : p.date \in 1..released
    BY PublishedType DEF IInv
  <2>3. \A o \in Published' : o.date \in Nat
    BY DEF IInv, TypeOK, Published, ReleaseRows
  <2>4. \A o \in Published' : HasKey(Published, o) \/
                              \A p \in Published : p.date < o.date
    BY <2>1, <2>2, <2>3 DEF Grows, IInv, TypeOK
  <2>5. Ledger!Release
    BY <2>1, <2>4 DEF Ledger!Release, Grows
  <2> QED  BY <2>5 DEF Ledger!Next
<1>2. ASSUME NEW r \in Runs, Launch(r) \/ Progress(r) \/ Cancel(r) \/ Crash(r)
      PROVE  [Ledger!Next]_Ledger!vars
  <2>1. /\ UNCHANGED <<today, released, upstream>>
        /\ Grows
        /\ \A row \in rates' \ rates :
              /\ Storable(row) /\ HasKey(Published, row) /\ ~ HasKey(rates, row)
              /\ row \in run[r].batch /\ KeysUnique(run[r].batch)
              /\ Covers(rates', Published', CoverageStart, row.date, capSkipped')
        /\ capSkipped' = capSkipped \/ rates' = rates
    BY <1>2, RunStep DEF IInv
  <2>2. Published' = Published
    BY <2>1 DEF Published, ReleaseRows
  <2>3. CASE rates' = rates
    BY <2>1, <2>2, <2>3 DEF Grows, Ledger!Next, Ledger!SkipDays
  <2>4. CASE capSkipped' = capSkipped
    <3>1. rates \subseteq rates'
      BY <2>1 DEF Grows
    <3>2. \A row \in rates' \ rates :
              /\ Storable(row) /\ HasKey(Published, row) /\ ~ HasKey(rates, row)
              /\ \A other \in rates' \ rates : SameKey(row, other) => row = other
      BY <2>1 DEF KeysUnique
    <3>3. Ledger!NoSilentGap'
      BY DEF IInv, NoSilentGap, CompleteThrough, Covers, Storable,
             Ledger!NoSilentGap, Ledger!Covers, Ledger!Storable
    <3>4. Ledger!Append
      BY <2>2, <2>4, <3>1, <3>2, <3>3 DEF Ledger!Append, Storable, Ledger!Storable
    <3> QED  BY <3>4 DEF Ledger!Next
  <2> QED  BY <2>1, <2>3, <2>4
<1>3. CASE UNCHANGED vars
  BY <1>3 DEF vars, Published, ReleaseRows
<1> QED  BY <1>1, <1>2, <1>3 DEF Next

(* The backfill implements the append-only ledger without holes: no        *)
(* interleaving of runs, failures and crashes rewrites a stored rate,      *)
(* stores a key twice or extends the table past a hole.                    *)
THEOREM Refinement == Spec => LedgerSpec
<1> QED  BY LedgerInit, LedgerStep, Invariance, PTL
         DEF Spec, LedgerSpec, Ledger!Spec
=============================================================================
