--------------------------- MODULE ProgressProofs ---------------------------
(***************************************************************************)
(* Proofs that a run of Backfill only goes forward, and that nothing can   *)
(* go forward for ever: the safety half of RunTerminates.  The other half, *)
(* that a live run has a step to take and takes it, is fairness and is     *)
(* left to TLC.                                                            *)
(***************************************************************************)
EXTENDS ReportProofs, WellFoundedInduction

USE DEF NoDate

(* Nothing descends for ever in Below, a fact about the order alone: it is *)
(* what makes a measure of Ahead.                                          *)
LEMMA DescentEnds ==
    ASSUME NEW f \in [Nat -> Triples]
    PROVE  \E n \in Nat : ~ Below(f[n + 1], f[n])
<1> DEFINE Less  == OpToRel(<, Nat)
           Pairs == LexPairOrdering(Less, Less, Nat, Nat)
           Order == LexPairOrdering(Less, Pairs, Nat, Nat \X Nat)
<1>1. ASSUME NEW m \in Nat, NEW n \in Nat PROVE <<m, n>> \in Less <=> m < n
  BY DEF OpToRel
<1>2. IsWellFoundedOn(Less, Nat)
  BY NatLessThanWellFounded
<1> HIDE DEF Less
<1>3. IsWellFoundedOn(Pairs, Nat \X Nat)
  BY <1>2, WFLexPairOrdering
<1>4. ASSUME NEW a \in Nat \X Nat, NEW b \in Nat \X Nat,
             a[1] < b[1] \/ (a[1] = b[1] /\ a[2] < b[2])
      PROVE  <<a, b>> \in Pairs
  BY <1>1, <1>4 DEF LexPairOrdering
<1> HIDE DEF Pairs
<1>5. IsWellFoundedOn(Order, Triples)
  BY <1>2, <1>3, WFLexPairOrdering DEF Triples
<1>6. ASSUME NEW a \in Triples, NEW b \in Triples, Below(a, b)
      PROVE  <<a, b>> \in Order
  <2>1. /\ a[1] \in Nat /\ b[1] \in Nat
        /\ a[2] \in Nat \X Nat /\ b[2] \in Nat \X Nat
    BY DEF Triples
  <2>2. \/ <<a[1], b[1]>> \in Less
        \/ a[1] = b[1] /\ <<a[2], b[2]>> \in Pairs
    BY <2>1, <1>1, <1>4, <1>6 DEF Below
  <2> QED  BY <2>1, <2>2 DEF LexPairOrdering, Triples
<1> HIDE DEF Order
<1>7. \E n \in Nat : ~ (<<f[n + 1], f[n]>> \in Order)
  BY <1>5 DEF IsWellFoundedOn
<1> QED  BY <1>6, <1>7

-----------------------------------------------------------------------------
(* The tries of a window are bounded.                                      *)
RetriesOK == \A r \in Runs : run[r].retries \in 0..MaxRetries

(* What is ahead is measured in naturals.                                  *)
LEMMA AheadTyped ==
    ASSUME IInv, RetriesOK, NEW r \in Runs
    PROVE  Live(r) => Ahead(run[r]) \in Triples
<1> SUFFICES ASSUME Live(r) PROVE Ahead(run[r]) \in Triples
  OBVIOUS
<1>1. /\ run[r].cursor \in Nat /\ run[r].horizon \in Nat
      /\ run[r].retries \in 0..MaxRetries /\ MaxRetries \in Nat
  BY BackfillAssumption DEF IInv, TypeOK, RunState, RetriesOK
<1>2. run[r].pc \in CursorPcs => run[r].cursor < run[r].horizon
  BY DEF IInv, RunOK
<1> QED  BY <1>1, <1>2 DEF Live, LivePcs, CursorPcs, Ahead, Triples

(* What a step makes of the run that takes it.                             *)
GoesForward(old, new) ==
    /\ new.retries \in 0..MaxRetries
    /\ old.pc \in LivePcs /\ new.pc \in LivePcs =>
          \/ new = [old EXCEPT !.cancelled = TRUE]
          \/ Below(Ahead(new), Ahead(old))

LEMMA EndedForward ==
    ASSUME NEW rec \in RunState, NEW old, NEW e
    PROVE  /\ GoesForward(old, ClassifyFetchError(rec, e))
           /\ GoesForward(old, FinalizeSuccess(rec))
BY BackfillAssumption DEF GoesForward, ClassifyFetchError, FinalizeSuccess,
   Return, RunState, LivePcs

(* The foot of the window loop moves the cursor to the end of the window.  *)
LEMMA NextWindowForward ==
    ASSUME NEW rec \in RunState, NEW old,
           old.pc \in {"fetching", "storing"}, rec.upto # NoDate => old.cursor < rec.upto,
           old.horizon = rec.horizon, old.cursor \in Nat,
           rec.retries \in 0..MaxRetries
    PROVE  GoesForward(old, NextWindow(rec))
<1>1. CASE rec.upto = NoDate \/ rec.upto >= rec.horizon
  BY <1>1, EndedForward DEF NextWindow
<1>2. CASE ~ (rec.upto = NoDate \/ rec.upto >= rec.horizon)
  <2> DEFINE new == NextWindow(rec)
  <2>1. /\ new.pc = "windowing" /\ new.cursor = rec.upto
        /\ new.horizon = rec.horizon /\ new.retries = rec.retries
    BY <1>2 DEF NextWindow, RunState
  <2>2. new.horizon - new.cursor < old.horizon - old.cursor
    BY <1>2, <2>1 DEF RunState
  <2> HIDE DEF new
  <2>3. Ahead(new)[1] = 0 /\ Ahead(new)[2][1] = new.horizon - new.cursor
    BY <2>1 DEF Ahead
  <2>4. Ahead(old)[1] = 0 /\ Ahead(old)[2][1] = old.horizon - old.cursor
    BY DEF Ahead
  <2> QED  BY <2>1, <2>2, <2>3, <2>4 DEF GoesForward, Below, new
<1> QED  BY <1>1, <1>2

(* A window that is not the last ends after the cursor.                    *)
LEMMA WindowEnds ==
    ASSUME IInv, NEW r \in Runs, run[r].pc \in WindowPcs
    PROVE  run[r].upto # NoDate => run[r].cursor < run[r].upto
<1>1. /\ run[r].after = FetchAfter(run[r].cursor)
      /\ run[r].upto = WindowUpto(run[r].after, run[r].horizon, BackfillRange)
      /\ run[r].cursor \in Nat /\ run[r].horizon \in Nat /\ BackfillRange \in Nat
  BY BackfillAssumption DEF IInv, RunOK, TypeOK, RunState
<1> QED  BY <1>1 DEF FetchAfter, WindowUpto

(* The steps before the window loop, and those that end a run from outside *)
(* or only mark it.                                                        *)
LEMMA StageForward ==
    ASSUME IInv, RetriesOK, NEW r \in Runs,
           \/ Launch(r) \/ Cancel(r) \/ Crash(r) \/ LoadLastSynced(r)
           \/ LoadFails(r) \/ Plan(r) \/ StartFetch(r)
    PROVE  GoesForward(run[r], run'[r])
<1>1. /\ run \in [Runs -> RunState] /\ run[r] \in RunState
      /\ run[r].retries \in 0..MaxRetries /\ MaxRetries \in Nat /\ today \in Nat
  BY BackfillAssumption DEF IInv, TypeOK, RetriesOK
<1>2. CASE Launch(r)
  <2>1. PICK m \in Modes : run'[r] = [run[r] EXCEPT !.pc = "loading", !.mode = m]
    BY <1>1, <1>2 DEF Launch, Become
  <2>2. run'[r].retries = run[r].retries
    BY <1>1, <2>1 DEF RunState
  <2>3. run[r].pc \notin LivePcs
    BY <1>2 DEF Launch, LivePcs
  <2> QED  BY <1>1, <2>2, <2>3 DEF GoesForward
<1>3. CASE Cancel(r)
  BY <1>1, <1>3 DEF Cancel, Become, GoesForward, RunState
<1>4. CASE Crash(r)
  BY <1>1, <1>4 DEF Crash, Become, GoesForward, NewRun, LivePcs
<1>5. CASE LoadLastSynced(r)
  <2>1. PICK d : run'[r] = [run[r] EXCEPT !.pc = "planning", !.lastSynced = d,
                                          !.lastSyncedAfter = d]
    BY <1>1, <1>5 DEF LoadLastSynced, Become
  <2>2. /\ run[r].pc = "loading" /\ run'[r].pc = "planning"
        /\ run'[r].retries = run[r].retries
    BY <1>1, <1>5, <2>1 DEF LoadLastSynced, RunState
  <2>3. Ahead(run'[r])[1] = 2 /\ Ahead(run[r])[1] = 3
    BY <2>2 DEF Ahead
  <2> QED  BY <1>1, <2>2, <2>3 DEF GoesForward, Below
<1>6. CASE LoadFails(r)
  BY <1>1, <1>6 DEF LoadFails, Become, GoesForward, RunState, LivePcs
<1>7. CASE Plan(r)
  <2>1. PICK start :
            \/ run'[r] = [run[r] EXCEPT !.pc = "done", !.horizon = today,
                                        !.status = "up_to_date"]
            \/ run'[r] = [run[r] EXCEPT !.pc = "starting", !.horizon = today,
                                        !.cursor = start]
    BY <1>1, <1>7 DEF Plan, Become
  <2>2. /\ run[r].pc = "planning" /\ run'[r].pc \in {"done", "starting"}
        /\ run'[r].retries = run[r].retries
    BY <1>1, <1>7, <2>1 DEF Plan, RunState
  <2>3. run'[r].pc = "starting" => Ahead(run'[r])[1] = 1
    BY DEF Ahead
  <2>4. Ahead(run[r])[1] = 2
    BY <2>2 DEF Ahead
  <2> QED  BY <1>1, <2>2, <2>3, <2>4 DEF GoesForward, Below, LivePcs
<1>8. CASE StartFetch(r)
  <2> DEFINE asked == [run[r] EXCEPT !.horizon = today]
  <2>1. asked \in RunState
    BY <1>1 DEF RunState
  <2>2. CASE IsUpToDate(run[r].cursor, today)
    <3>1. run'[r] = FinalizeSuccess(asked)
      BY <1>1, <1>8, <2>2 DEF StartFetch, Become
    <3> QED  BY <2>1, <3>1, EndedForward
  <2>3. CASE ~ IsUpToDate(run[r].cursor, today)
    BY <1>1, <1>8, <2>3 DEF StartFetch, Become, GoesForward, RunState, Ahead, Below
  <2> QED  BY <2>2, <2>3
<1> QED  BY <1>2, <1>3, <1>4, <1>5, <1>6, <1>7, <1>8

(* The steps of the window loop.                                           *)
LEMMA WindowForward ==
    ASSUME IInv, RetriesOK, NEW r \in Runs,
           \/ OpenWindow(r) \/ StopAtWindow(r) \/ RetryFetch(r) \/ GiveUp(r)
           \/ BackoffElapsed(r) \/ BackoffCancelled(r) \/ StoreFails(r)
    PROVE  GoesForward(run[r], run'[r])
<1>1. /\ run \in [Runs -> RunState] /\ run[r] \in RunState
      /\ run[r].retries \in 0..MaxRetries /\ MaxRetries \in Nat
      /\ run[r].cursor \in Nat /\ run[r].horizon \in Nat
  BY BackfillAssumption DEF IInv, TypeOK, RetriesOK, RunState
<1>2. CASE OpenWindow(r)
  BY <1>1, <1>2 DEF OpenWindow, Become, GoesForward, RunState, Ahead, Below
<1>3. CASE RetryFetch(r)
  BY <1>1, <1>3 DEF RetryFetch, Become, GoesForward, RunState, Ahead, Below
<1>4. CASE BackoffElapsed(r)
  BY <1>1, <1>4 DEF BackoffElapsed, Become, GoesForward, RunState, Ahead, Below
<1>5. CASE StopAtWindow(r) \/ GiveUp(r) \/ BackoffCancelled(r) \/ StoreFails(r)
  <2>1. \E e : run'[r] = ClassifyFetchError(run[r], e)
    BY <1>1, <1>5 DEF StopAtWindow, GiveUp, BackoffCancelled, StoreFails, Become
  <2> QED  BY <1>1, <2>1, EndedForward
<1> QED  BY <1>2, <1>3, <1>4, <1>5

(* The steps that may be the last of a window.                             *)
LEMMA FootForward ==
    ASSUME IInv, RetriesOK, NEW r \in Runs, FetchRecords(r) \/ StoreBatch(r)
    PROVE  GoesForward(run[r], run'[r])
<1>1. /\ run \in [Runs -> RunState] /\ run[r] \in RunState
      /\ run[r].retries \in 0..MaxRetries /\ MaxRetries \in Nat
      /\ run[r].cursor \in Nat /\ run[r].horizon \in Nat
      /\ run[r].pc \in {"fetching", "storing"}
  BY BackfillAssumption DEF IInv, TypeOK, RetriesOK, RunState, FetchRecords, StoreBatch
<1>2. run[r].upto # NoDate => run[r].cursor < run[r].upto
  BY <1>1, WindowEnds DEF WindowPcs
<1>3. ASSUME NEW rec \in RunState, rec.upto = run[r].upto,
             rec.horizon = run[r].horizon, rec.retries = run[r].retries
      PROVE  GoesForward(run[r], NextWindow(rec))
  BY <1>1, <1>2, <1>3, NextWindowForward
<1>4. CASE FetchRecords(r)
  <2>1. PICK newest, f \in Nat, valid \in SUBSET Observation :
            LET seen == [run[r] EXCEPT
                            !.batch = valid, !.fetched = f,
                            !.maxSeen = MaxDate(run[r].maxSeen, newest)]
            IN  /\ seen \in RunState
                /\ run'[r] = IF valid = {} THEN NextWindow(seen)
                             ELSE [seen EXCEPT !.pc = "storing"]
    BY <1>4, FetchedRun DEF IInv
  <2> DEFINE seen == [run[r] EXCEPT
                        !.batch = valid, !.fetched = f,
                        !.maxSeen = MaxDate(run[r].maxSeen, newest)]
  <2>2. /\ seen \in RunState
        /\ seen.upto = run[r].upto /\ seen.horizon = run[r].horizon
        /\ seen.cursor = run[r].cursor /\ seen.retries = run[r].retries
    BY <1>1, <2>1 DEF RunState
  <2>3. \/ run'[r] = NextWindow(seen)
        \/ run'[r] = [seen EXCEPT !.pc = "storing"]
    BY <2>1
  <2>4. run[r].pc = "fetching"
    BY <1>4 DEF FetchRecords
  <2> HIDE DEF seen
  <2>5. CASE run'[r] = NextWindow(seen)
    BY <1>3, <2>2, <2>5
  <2>6. CASE run'[r] = [seen EXCEPT !.pc = "storing"]
    <3>1. /\ run'[r].pc = "storing" /\ run'[r].horizon = run[r].horizon
          /\ run'[r].cursor = run[r].cursor /\ run'[r].retries = run[r].retries
      BY <2>2, <2>6 DEF RunState
    <3>2. Ahead(run'[r]) = <<0, <<run[r].horizon - run[r].cursor, 1>>>>
      BY <3>1 DEF Ahead
    <3>3. Ahead(run[r]) = <<0, <<run[r].horizon - run[r].cursor,
                                 2 * (MaxRetries - run[r].retries) + 2>>>>
      BY <2>4 DEF Ahead
    <3>4. 1 < 2 * (MaxRetries - run[r].retries) + 2
      BY <1>1
    <3> QED  BY <1>1, <3>1, <3>2, <3>3, <3>4 DEF GoesForward, Below
  <2> QED  BY <2>3, <2>5, <2>6
<1>5. CASE StoreBatch(r)
  <2> DEFINE b    == run[r].batch
             told == [run[r] EXCEPT
                         !.inserted = run[r].inserted + Cardinality(NewRows(b)),
                         !.skipped = run[r].skipped + Cardinality(b \ NewRows(b))]
  <2>1. told \in RunState /\ run'[r] = NextWindow(told)
    BY <1>5, StoredRun DEF IInv
  <2>2. /\ told.upto = run[r].upto /\ told.horizon = run[r].horizon
        /\ told.retries = run[r].retries
    BY <1>1 DEF RunState
  <2> HIDE DEF told
  <2> QED  BY <1>3, <2>1, <2>2
<1> QED  BY <1>4, <1>5

-----------------------------------------------------------------------------
LEMMA InitRetries == Init => RetriesOK
BY BackfillAssumption DEF Init, RetriesOK, NewRun

(* A step takes one run forward, or none.                                  *)
LEMMA NextForward ==
    ASSUME IInv, RetriesOK, [Next]_vars, NEW r \in Runs
    PROVE  run'[r] = run[r] \/ GoesForward(run[r], run'[r])
<1>1. CASE Environment \/ UNCHANGED vars
  BY <1>1 DEF Environment, PublishRelease, Revise, Midnight, vars
<1>2. ASSUME NEW s \in Runs, Launch(s) \/ Progress(s) \/ Cancel(s) \/ Crash(s)
      PROVE  run'[r] = run[r] \/ GoesForward(run[r], run'[r])
  <2>1. CASE s # r
    <3>1. TypeOK'
      BY NextIInv DEF IInv
    <3> QED  BY <1>2, <2>1, <3>1, RunStep DEF IInv
  <2>2. CASE s = r
    BY <1>2, <2>2, StageForward, WindowForward, FootForward DEF Progress
  <2> QED  BY <2>1, <2>2
<1> QED  BY <1>1, <1>2 DEF Next

LEMMA NextRetries == IInv /\ RetriesOK /\ [Next]_vars => RetriesOK'
<1> SUFFICES ASSUME IInv, RetriesOK, [Next]_vars, NEW r \in Runs
             PROVE  run'[r].retries \in 0..MaxRetries
  BY DEF RetriesOK
<1>1. run'[r] = run[r] \/ GoesForward(run[r], run'[r])
  BY NextForward
<1> QED  BY <1>1 DEF RetriesOK, GoesForward

LEMMA RetriesBounded == Spec => []RetriesOK
<1> QED  BY InitRetries, NextRetries, Invariance, PTL DEF Spec

(* Each step of a live run other than being cancelled uses up a stage, a   *)
(* day or a try of it, which no later step brings back, however the        *)
(* upstream answers and the calendar moves (FetchEachObserved).            *)
THEOREM RunsGoForward == Spec => StepsUseUp
<1>1. IInv /\ RetriesOK /\ [Next]_vars
         => [\A r \in Runs :
                (Live(r) /\ run'[r].pc \in LivePcs) =>
                    \/ run'[r] \in {run[r], [run[r] EXCEPT !.cancelled = TRUE]}
                    \/ Below(Ahead(run'[r]), Ahead(run[r]))]_vars
  BY NextForward DEF GoesForward, Live
<1> QED  BY <1>1, RetriesBounded, Invariance, PTL DEF Spec, StepsUseUp

(* What a live run has ahead of it is a triple of naturals, so that by     *)
(* DescentEnds it cannot take steps for ever without ending.               *)
THEOREM AheadIsMeasured == Spec => [](\A r \in Runs : Live(r) => Ahead(run[r]) \in Triples)
<1>1. IInv /\ RetriesOK => \A r \in Runs : Live(r) => Ahead(run[r]) \in Triples
  BY AheadTyped
<1> QED  BY <1>1, RetriesBounded, Invariance, PTL
=============================================================================
