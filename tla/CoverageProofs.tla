--------------------------- MODULE CoverageProofs ---------------------------
(***************************************************************************)
(* Proofs about Coverage, for any number of runs, quotes and days and any  *)
(* published history: the summaries never promise rates that are not       *)
(* stored, and are exact when no refresh is under way or lost.             *)
(***************************************************************************)
EXTENDS Coverage, WellFoundedInduction, TLAPS

In(date, range) == range # NoRange /\ range.start <= date /\ date <= range.end

(* A row of code c is in the summary, or some run is yet to put it there.  *)
Covered(c, row, summary) ==
    \/ In(row.date, summary[c])
    \/ \E r \in Runs :
          \/ c \in run[r].todo
          \/ /\ run[r].pc \in {"coverage", "currency"}
             /\ run[r].code = c /\ In(row.date, run[r].range)

(* A run refreshes codes that have rows, and has read no more than is      *)
(* there.                                                                  *)
RunOK(r) ==
    /\ run[r].pc \in {"idle", "crashed"} => run[r].todo = {}
    /\ \A c \in run[r].todo : RowsOf(c) # {}
    /\ run[r].pc \in {"coverage", "currency"} =>
          /\ run[r].range # NoRange
          /\ Within(run[r].range, RangeOf(RowsOf(run[r].code)))
    /\ run[r].pc = "currency" => Within(run[r].range, coverages[run[r].code])

AllCovered ==
    \A c \in Codes \ missed : \A row \in RowsOf(c) :
        Covered(c, row, coverages) /\ Covered(c, row, currencies)

IInv ==
    /\ TypeOK
    /\ \A r \in Runs : RunOK(r)
    /\ SummariesNeverOverstate
    /\ AllCovered

-----------------------------------------------------------------------------
(* Sets of days have a first and a last day.                               *)
LEMMA HasMin ==
    ASSUME NEW S, S \subseteq Nat, S # {}
    PROVE  \E x \in S : \A y \in S : x <= y
<1>1. PICK x \in S : \A y \in S : ~ (<<y, x>> \in OpToRel(<, Nat))
  BY NatLessThanWellFounded, WFMin
<1>2. ASSUME NEW y \in S PROVE x <= y
  <2>1. x \in Nat /\ y \in Nat
    OBVIOUS
  <2>2. ~ (<<y, x>> \in OpToRel(<, Nat))
    BY <1>1
  <2>3. ASSUME y < x PROVE <<y, x>> \in {ss \in Nat \X Nat : ss[1] < ss[2]}
    BY <2>1, <2>3
  <2>4. ~ (y < x)
    BY <2>2, <2>3 DEF OpToRel
  <2> QED  BY <2>1, <2>4
<1> QED  BY <1>2

LEMMA HasMax ==
    ASSUME NEW n \in Nat, NEW S, S \subseteq 1..n, S # {}
    PROVE  \E x \in S : \A y \in S : x >= y
<1> DEFINE T == {n - x : x \in S}
<1>1. T \subseteq Nat /\ T # {}
  <2>1. ASSUME NEW x \in S PROVE n - x \in Nat
    <3>1. x \in Int /\ x <= n
      OBVIOUS
    <3> QED  BY <3>1
  <2>2. T \subseteq Nat
    BY <2>1
  <2>3. T # {}
    OBVIOUS
  <2> QED  BY <2>2, <2>3
<1>2. PICK m \in T : \A k \in T : m <= k
  <2> HIDE DEF T
  <2> QED  BY <1>1, HasMin
<1>3. PICK x \in S : m = n - x
  OBVIOUS
<1>4. ASSUME NEW y \in S PROVE x >= y
  <2>1. n - y \in T
    OBVIOUS
  <2>2. n - x <= n - y
    BY <1>2, <1>3, <2>1
  <2> QED  BY <2>2
<1> QED  BY <1>4

LEMMA MinMax ==
    ASSUME NEW S, S \subseteq 1..LastDate, S # {}
    PROVE  /\ Min(S) \in S /\ \A y \in S : Min(S) <= y
           /\ Max(S) \in S /\ \A y \in S : y <= Max(S)
<1>1. \E x \in S : \A y \in S : x <= y
  <2>1. S \subseteq Nat
    BY CoverageAssumption
  <2> QED  BY <2>1, HasMin
<1>2. \E x \in S : \A y \in S : x >= y
  BY CoverageAssumption, HasMax
<1>3. Min(S) \in S /\ \A y \in S : Min(S) <= y
  BY <1>1 DEF Min
<1>4. Max(S) \in S /\ \A y \in S : Max(S) >= y
  BY <1>2 DEF Max
<1> QED  BY <1>3, <1>4, CoverageAssumption

(* A range holds two days of 1..LastDate, or is NoRange.                   *)
LEMMA RangeCases ==
    ASSUME NEW range \in DateRange
    PROVE  /\ range # NoRange => range.start \in 1..LastDate /\ range.end \in 1..LastDate
           /\ \A other \in DateRange :
                 (/\ range # NoRange /\ other # NoRange
                  /\ range.start = other.start /\ range.end = other.end)
                    => range = other
BY DEF DateRange

(* What RangeOf returns: nothing of nothing, else the tightest range.      *)
LEMMA RangeOfRows ==
    ASSUME NEW rows, rows \subseteq Row
    PROVE  /\ RangeOf(rows) \in DateRange
           /\ rows = {} => RangeOf(rows) = NoRange
           /\ rows # {} => RangeOf(rows) # NoRange
           /\ \A row \in rows : In(row.date, RangeOf(rows))
           /\ RangeOf(rows) # NoRange =>
                 \E a, b \in rows : a.date = RangeOf(rows).start /\ b.date = RangeOf(rows).end
<1> DEFINE dates == {row.date : row \in rows}
<1>1. CASE rows = {}
  BY <1>1 DEF RangeOf, DateRange
<1>2. CASE rows # {}
  <2>1. dates \subseteq 1..LastDate /\ dates # {}
    BY <1>2 DEF Row
  <2>2. /\ Min(dates) \in dates /\ \A y \in dates : Min(dates) <= y
        /\ Max(dates) \in dates /\ \A y \in dates : y <= Max(dates)
    <3> HIDE DEF dates
    <3> QED  BY <2>1, MinMax
  <2>3. RangeOf(rows) = [start |-> Min(dates), end |-> Max(dates)]
    BY <1>2 DEF RangeOf
  <2>4. Min(dates) \in 1..LastDate /\ Max(dates) \in 1..LastDate
    BY <2>1, <2>2
  <2>5. RangeOf(rows).start = Min(dates) /\ RangeOf(rows).end = Max(dates)
    BY <2>3
  <2>6. RangeOf(rows) \in DateRange /\ RangeOf(rows) # NoRange
    <3>1. Min(dates) # 0
      BY <2>4, CoverageAssumption
    <3> HIDE DEF dates
    <3> QED  BY <2>3, <2>4, <3>1 DEF DateRange, NoRange
  <2>7. \A row \in rows : In(row.date, RangeOf(rows))
    BY <2>2, <2>5, <2>6 DEF In
  <2>8. \E a, b \in rows : a.date = RangeOf(rows).start /\ b.date = RangeOf(rows).end
    BY <2>2, <2>5
  <2> QED  BY <1>2, <2>6, <2>7, <2>8
<1> QED  BY <1>1, <1>2

LEMMA WithinTrans ==
    ASSUME NEW x \in DateRange, NEW y \in DateRange, NEW z \in DateRange,
           Within(x, y), Within(y, z)
    PROVE  Within(x, z)
BY RangeCases, CoverageAssumption DEF Within

LEMMA WithinIn ==
    ASSUME NEW x \in DateRange, NEW y \in DateRange, Within(x, y),
           NEW d \in 1..LastDate, In(d, x)
    PROVE  In(d, y)
BY RangeCases, CoverageAssumption DEF Within, In

LEMMA RangeGrows ==
    ASSUME NEW less, NEW more, less \subseteq more, more \subseteq Row
    PROVE  Within(RangeOf(less), RangeOf(more))
<1> SUFFICES ASSUME RangeOf(less) # NoRange
             PROVE  /\ RangeOf(more) # NoRange
                    /\ RangeOf(more).start <= RangeOf(less).start
                    /\ RangeOf(less).end <= RangeOf(more).end
  BY DEF Within
<1>1. less \subseteq Row
  OBVIOUS
<1>2. PICK a, b \in less : a.date = RangeOf(less).start /\ b.date = RangeOf(less).end
  BY <1>1, RangeOfRows
<1>3. In(a.date, RangeOf(more)) /\ In(b.date, RangeOf(more))
  BY RangeOfRows
<1> QED  BY <1>2, <1>3 DEF In

(* The upsert's range is the smallest that holds both.                     *)
LEMMA WidenBounds ==
    ASSUME NEW old \in DateRange, NEW new \in DateRange, new # NoRange
    PROVE  /\ Widen(old, new) \in DateRange
           /\ Within(old, Widen(old, new))
           /\ Within(new, Widen(old, new))
           /\ \A outer \in DateRange :
                 Within(old, outer) /\ Within(new, outer) => Within(Widen(old, new), outer)
<1>1. CASE old = NoRange
  BY <1>1, RangeCases, CoverageAssumption DEF Widen, Within
<1>2. CASE old # NoRange
  <2>1. /\ old.start \in 1..LastDate /\ old.end \in 1..LastDate
        /\ new.start \in 1..LastDate /\ new.end \in 1..LastDate
    BY <1>2, RangeCases
  <2> DEFINE first == Min({old.start, new.start})
             last  == Max({old.end, new.end})
  <2>2. /\ first \in {old.start, new.start} /\ first <= old.start /\ first <= new.start
        /\ last \in {old.end, new.end} /\ last >= old.end /\ last >= new.end
    <3>1. first \in {old.start, new.start} /\ \A y \in {old.start, new.start} : first <= y
      BY <2>1, MinMax
    <3>2. last \in {old.end, new.end} /\ \A y \in {old.end, new.end} : y <= last
      BY <2>1, MinMax
    <3> HIDE DEF first, last
    <3> QED  BY <2>1, <3>1, <3>2, CoverageAssumption
  <2>3. Widen(old, new) = [start |-> first, end |-> last]
    BY <1>2 DEF Widen
  <2>4. first \in 1..LastDate /\ last \in 1..LastDate
    BY <2>1, <2>2
  <2> HIDE DEF first, last
  <2>5. Widen(old, new) \in DateRange /\ Widen(old, new) # NoRange
        /\ Widen(old, new).start = first /\ Widen(old, new).end = last
    BY <2>3, <2>4, CoverageAssumption DEF DateRange, NoRange
  <2> QED  BY <1>2, <2>2, <2>5 DEF Within
<1> QED  BY <1>1, <1>2
-----------------------------------------------------------------------------
LEMMA RowsType ==
    ASSUME TypeOK, NEW c \in Codes
    PROVE  /\ rates \subseteq Row
           /\ RowsOf(c) \subseteq Row
           /\ \A row \in RowsOf(c) : row.date \in 1..LastDate
BY DEF TypeOK, RowsOf, Row

LEMMA CodesType ==
    ASSUME NEW rows, rows \subseteq Row
    PROVE  CodesOf(rows) \subseteq Codes
BY DEF CodesOf, Codes, Row

(* What the next code leaves of a run.                                     *)
LEMMA NextCodeType ==
    ASSUME TypeOK, NEW r \in Runs, NEW todo \in SUBSET Codes, NextCode(r, todo)
    PROVE  /\ run' \in [Runs -> RunState]
           /\ run'[r].todo = todo
           /\ run'[r].pc = IF todo = {} THEN "idle" ELSE "reading"
           /\ \A q \in Runs \ {r} : run'[q] = run[q]
<1> DEFINE s == IF todo = {} THEN Idle ELSE [Idle EXCEPT !.pc = "reading", !.todo = todo]
<1>1. /\ s \in RunState /\ s.todo = todo
      /\ s.pc = IF todo = {} THEN "idle" ELSE "reading"
  BY DEF Idle, RunState, Codes, DateRange
<1>2. run' = [run EXCEPT ![r] = s]
  BY DEF NextCode, Become
<1> HIDE DEF s
<1> QED  BY <1>1, <1>2 DEF TypeOK

LEMMA StopType ==
    ASSUME TypeOK, NEW r \in Runs, NEW label \in {"idle", "crashed"},
           run' = [run EXCEPT ![r] = [Idle EXCEPT !.pc = label]]
    PROVE  /\ run' \in [Runs -> RunState]
           /\ run'[r].todo = {} /\ run'[r].pc = label
           /\ \A q \in Runs \ {r} : run'[q] = run[q]
<1> DEFINE s == [Idle EXCEPT !.pc = label]
<1>1. s \in RunState /\ s.todo = {} /\ s.pc = label
  BY DEF Idle, RunState, Codes, DateRange
<1> HIDE DEF s
<1> QED  BY <1>1 DEF TypeOK, s

LEMMA InitInv == Init => IInv
<1> SUFFICES ASSUME Init PROVE IInv
  OBVIOUS
<1>1. Idle \in RunState /\ Idle.pc = "idle" /\ Idle.todo = {}
  BY DEF Idle, RunState, Codes, DateRange
<1>2. TypeOK
  BY <1>1, CoverageAssumption DEF Init, TypeOK, DateRange
<1>3. \A r \in Runs : RunOK(r)
  BY <1>1 DEF Init, RunOK
<1>4. SummariesNeverOverstate
  BY DEF Init, SummariesNeverOverstate, Within
<1>5. AllCovered
  BY DEF Init, AllCovered, RowsOf
<1> QED  BY <1>2, <1>3, <1>4, <1>5 DEF IInv

-----------------------------------------------------------------------------
(* New rows leave what is known of the summaries and the runs true.        *)
LEMMA RowsGrow ==
    ASSUME IInv, TypeOK', rates \subseteq rates', UNCHANGED <<coverages, currencies>>
    PROVE  /\ SummariesNeverOverstate'
           /\ \A q \in Runs : run'[q] = run[q] => RunOK(q)'
<1>1. ASSUME NEW c \in Codes
      PROVE  /\ Within(RangeOf(RowsOf(c)), RangeOf(RowsOf(c)'))
             /\ RangeOf(RowsOf(c)) \in DateRange /\ RangeOf(RowsOf(c)') \in DateRange
  <2>1. RowsOf(c) \subseteq RowsOf(c)' /\ RowsOf(c)' \subseteq Row
    BY DEF RowsOf, TypeOK
  <2> QED  BY <2>1, RangeGrows, RangeOfRows
<1>2. SummariesNeverOverstate'
  BY <1>1, WithinTrans DEF SummariesNeverOverstate, IInv, TypeOK
<1>3. ASSUME NEW q \in Runs, run'[q] = run[q] PROVE RunOK(q)'
  <2>1. run[q].code \in Codes /\ run[q].range \in DateRange /\ run[q].todo \subseteq Codes
    BY DEF IInv, TypeOK, RunState
  <2>2. \A c \in run[q].todo : RowsOf(c) # {} => RowsOf(c)' # {}
    BY DEF RowsOf
  <2> QED  BY <1>1, <1>3, <2>1, <2>2, WithinTrans DEF IInv, RunOK
<1> QED  BY <1>2, <1>3

LEMMA StoreBatchInv ==
    ASSUME IInv, NEW r \in Runs, StoreBatch(r)
    PROVE  IInv'
<1>1. PICK from \in 1..LastDate, to \in 1..LastDate :
          /\ rates' = rates \cup Window(from, to)
          /\ NextCode(r, IF Window(from, to) \subseteq rates THEN {}
                                                      ELSE CodesOf(Window(from, to)))
  BY DEF StoreBatch
<1> DEFINE batch == Window(from, to)
           todo  == IF batch \subseteq rates THEN {} ELSE CodesOf(batch)
<1>2. batch \subseteq published /\ published \subseteq Row
  BY DEF Window, IInv, TypeOK
<1>3. UNCHANGED <<published, coverages, currencies, missed>> /\ run[r].pc = "idle"
  BY DEF StoreBatch
<1>4. todo \subseteq Codes
  BY <1>2, CodesType
<1>5. /\ run' \in [Runs -> RunState] /\ run'[r].todo = todo
      /\ run'[r].pc \in {"idle", "reading"} /\ (run'[r].pc = "idle" => todo = {})
      /\ \A q \in Runs \ {r} : run'[q] = run[q]
  <2> HIDE DEF todo
  <2> QED  BY <1>1, <1>4, NextCodeType DEF IInv, todo
<1>6. TypeOK'
  BY <1>1, <1>2, <1>3, <1>5 DEF IInv, TypeOK
<1>7. rates \subseteq rates'
  BY <1>1
<1>8. RunOK(r)'
  <2>1. ASSUME NEW c \in todo PROVE RowsOf(c)' # {}
    <3>1. batch # {} /\ c \in CodesOf(batch)
      BY <2>1
    <3> QED  BY <1>1, <3>1 DEF CodesOf, RowsOf
  <2> HIDE DEF todo
  <2> QED  BY <1>5, <2>1 DEF RunOK
<1>9. AllCovered'
  <2> SUFFICES ASSUME NEW c \in Codes \ missed, NEW row \in RowsOf(c)'
               PROVE  (Covered(c, row, coverages) /\ Covered(c, row, currencies))'
    BY <1>3 DEF AllCovered
  <2>1. CASE row \in RowsOf(c)
    <3>1. Covered(c, row, coverages) /\ Covered(c, row, currencies)
      BY <2>1 DEF IInv, AllCovered
    <3>2. run[r].todo = {}
      BY <1>3 DEF IInv, RunOK
    <3> QED  BY <1>3, <1>5, <3>1, <3>2 DEF Covered
  <2>2. CASE row \notin RowsOf(c)
    <3>1. row \in batch /\ row \notin rates /\ (c = Base \/ row.quote = c)
      BY <1>1, <2>2 DEF RowsOf
    <3>2. c \in todo
      BY <3>1 DEF CodesOf
    <3> QED  BY <1>5, <3>2 DEF Covered
  <2> QED  BY <2>1, <2>2
<1> QED  BY <1>3, <1>5, <1>6, <1>7, <1>8, <1>9, RowsGrow DEF IInv

LEMMA StoreUnconfirmedInv ==
    ASSUME IInv, NEW r \in Runs, StoreUnconfirmed(r)
    PROVE  IInv'
<1>1. PICK from \in 1..LastDate, to \in 1..LastDate :
          /\ rates' = rates \cup Window(from, to)
          /\ missed' = missed \cup CodesOf(Window(from, to))
  BY DEF StoreUnconfirmed
<1>2. Window(from, to) \subseteq published /\ published \subseteq Row
  BY DEF Window, IInv, TypeOK
<1>3. UNCHANGED <<published, coverages, currencies, run>>
  BY DEF StoreUnconfirmed
<1>4. TypeOK'
  BY <1>1, <1>2, <1>3, CodesType DEF IInv, TypeOK
<1>5. AllCovered'
  <2> SUFFICES ASSUME NEW c \in Codes \ missed', NEW row \in RowsOf(c)'
               PROVE  (Covered(c, row, coverages) /\ Covered(c, row, currencies))'
    BY DEF AllCovered
  <2>1. row \in RowsOf(c)
    BY <1>1 DEF RowsOf, CodesOf
  <2>2. Covered(c, row, coverages) /\ Covered(c, row, currencies)
    BY <1>1, <2>1 DEF IInv, AllCovered
  <2> QED  BY <1>3, <2>2 DEF Covered
<1>6. rates \subseteq rates'
  BY <1>1
<1> QED  BY <1>3, <1>4, <1>5, <1>6, RowsGrow DEF IInv

-----------------------------------------------------------------------------
(* A range read covers all the rows of its code.                           *)
LEMMA ReadRangeInv ==
    ASSUME IInv, NEW r \in Runs, ReadRange(r)
    PROVE  IInv'
<1>1. PICK c \in run[r].todo :
          Become(r, [pc |-> "coverage", todo |-> run[r].todo \ {c},
                     code |-> c, range |-> RangeOf(RowsOf(c))])
  BY DEF ReadRange
<1> DEFINE s == [pc |-> "coverage", todo |-> run[r].todo \ {c},
                 code |-> c, range |-> RangeOf(RowsOf(c))]
<1>2. run[r].todo \subseteq Codes /\ c \in Codes
  BY DEF IInv, TypeOK, RunState
<1>3. RangeOf(RowsOf(c)) \in DateRange /\ RangeOf(RowsOf(c)) # NoRange
  BY <1>2, RowsType, RangeOfRows DEF IInv, RunOK
<1>4. UNCHANGED <<published, rates, coverages, currencies, missed>>
  BY DEF ReadRange
<1>5. s \in RunState
  BY <1>2, <1>3 DEF RunState
<1>6. /\ run' \in [Runs -> RunState] /\ run'[r] = s
      /\ \A q \in Runs \ {r} : run'[q] = run[q]
  <2> HIDE DEF s
  <2> QED  BY <1>1, <1>5 DEF Become, IInv, TypeOK, s
<1>7. /\ run'[r].todo = run[r].todo \ {c} /\ run'[r].pc = "coverage"
      /\ run'[r].code = c /\ run'[r].range = RangeOf(RowsOf(c))
  BY <1>6
<1>8. \A k \in Codes : RowsOf(k)' = RowsOf(k)
  BY <1>4 DEF RowsOf
<1>9. TypeOK'
  BY <1>4, <1>6 DEF IInv, TypeOK
<1>10. RunOK(r)'
  <2>1. Within(RangeOf(RowsOf(c)), RangeOf(RowsOf(c)))
    BY <1>3, RangeCases, CoverageAssumption DEF Within
  <2>2. RowsOf(run[r].code)' = RowsOf(c)
    BY <1>4, <1>7 DEF RowsOf
  <2>3. \A k \in run'[r].todo : RowsOf(k)' # {}
    BY <1>2, <1>7, <1>8 DEF IInv, RunOK
  <2> QED  BY <1>3, <1>7, <2>1, <2>2, <2>3 DEF RunOK
<1>11. AllCovered'
  <2> SUFFICES ASSUME NEW k \in Codes \ missed, NEW row \in RowsOf(k)
               PROVE  (Covered(k, row, coverages) /\ Covered(k, row, currencies))'
    BY <1>4, <1>8 DEF AllCovered
  <2>1. Covered(k, row, coverages) /\ Covered(k, row, currencies)
    BY DEF IInv, AllCovered
  <2>2. CASE k = c
    <3>1. In(row.date, RangeOf(RowsOf(c)))
      BY <1>2, <2>2, RowsType, RangeOfRows DEF IInv
    <3> QED  BY <1>7, <2>2, <3>1 DEF Covered
  <2>3. CASE k # c
    <3>1. run[r].pc = "reading"
      BY DEF ReadRange
    <3> QED  BY <1>4, <1>6, <1>7, <2>1, <2>3, <3>1 DEF Covered
  <2> QED  BY <2>2, <2>3
<1> QED  BY <1>4, <1>6, <1>9, <1>10, <1>11, RowsGrow DEF IInv

(* Rows stay covered by a step of r that drops a code only when it is      *)
(* missed, and a range only when it is in both summaries.                  *)
LEMMA StillCovered ==
    ASSUME IInv, NEW r \in Runs,
           \A q \in Runs \ {r} : run'[q] = run[q],
           missed \subseteq missed',
           \A c \in run[r].todo : c \in run'[r].todo \/ c \in missed',
           run[r].pc \in {"coverage", "currency"} =>
              \/ run[r].code \in missed'
              \/ \A d \in 1..LastDate : In(d, run[r].range) =>
                    In(d, coverages'[run[r].code]) /\ In(d, currencies'[run[r].code])
              \/ /\ run'[r].pc \in {"coverage", "currency"}
                 /\ run'[r].code = run[r].code /\ run'[r].range = run[r].range,
           rates' = rates,
           \A c \in Codes, d \in 1..LastDate :
              /\ In(d, coverages[c]) => In(d, coverages'[c])
              /\ In(d, currencies[c]) => In(d, currencies'[c])
    PROVE  AllCovered'
<1> SUFFICES ASSUME NEW c \in Codes \ missed', NEW row \in RowsOf(c)'
             PROVE  (Covered(c, row, coverages) /\ Covered(c, row, currencies))'
  BY DEF AllCovered
<1>1. row \in RowsOf(c) /\ row.date \in 1..LastDate
  BY RowsType DEF RowsOf, IInv
<1>2. Covered(c, row, coverages) /\ Covered(c, row, currencies)
  BY <1>1 DEF IInv, AllCovered
<1>3. CASE \E q \in Runs : \/ c \in run[q].todo
                           \/ /\ run[q].pc \in {"coverage", "currency"}
                              /\ run[q].code = c /\ In(row.date, run[q].range)
  <2>1. PICK q \in Runs : \/ c \in run[q].todo
                          \/ /\ run[q].pc \in {"coverage", "currency"}
                             /\ run[q].code = c /\ In(row.date, run[q].range)
    BY <1>3
  <2>2. CASE q # r
    BY <2>1, <2>2 DEF Covered
  <2>3. CASE q = r
    BY <1>1, <2>1, <2>3 DEF Covered
  <2> QED  BY <2>2, <2>3
<1>4. CASE In(row.date, coverages[c]) /\ In(row.date, currencies[c])
  BY <1>1, <1>4 DEF Covered
<1> QED  BY <1>2, <1>3, <1>4 DEF Covered

LEMMA ReadFailsInv ==
    ASSUME IInv, NEW r \in Runs, ReadFails(r)
    PROVE  IInv'
<1>1. PICK c \in run[r].todo :
          NextCode(r, run[r].todo \ {c}) /\ missed' = missed \cup {c}
  BY DEF ReadFails
<1>2. run[r].todo \subseteq Codes /\ run[r].pc = "reading"
  BY DEF IInv, TypeOK, RunState, ReadFails
<1>3. UNCHANGED <<published, rates, coverages, currencies>>
  BY DEF ReadFails
<1>4. /\ run' \in [Runs -> RunState] /\ run'[r].todo = run[r].todo \ {c}
      /\ run'[r].pc = IF run[r].todo \ {c} = {} THEN "idle" ELSE "reading"
      /\ \A q \in Runs \ {r} : run'[q] = run[q]
  <2> DEFINE rest == run[r].todo \ {c}
  <2>1. rest \in SUBSET Codes
    BY <1>2
  <2> HIDE DEF rest
  <2>2. NextCode(r, rest)
    BY <1>1 DEF rest
  <2> QED  BY <2>1, <2>2, NextCodeType DEF IInv, rest
<1>5. TypeOK'
  BY <1>1, <1>2, <1>3, <1>4 DEF IInv, TypeOK
<1>6. RunOK(r)'
  BY <1>2, <1>3, <1>4 DEF IInv, RunOK, RowsOf
<1>7. AllCovered'
  BY <1>1, <1>2, <1>3, <1>4, StillCovered
<1> QED  BY <1>3, <1>4, <1>5, <1>6, <1>7, RowsGrow DEF IInv

-----------------------------------------------------------------------------
(* An upsert widens a summary by a range that was read.                    *)
LEMMA UpsertOK ==
    ASSUME IInv, NEW r \in Runs, run[r].pc \in {"coverage", "currency"},
           UpsertMayHappen(r), rates' = rates
    PROVE  /\ coverages' \in [Codes -> DateRange] /\ currencies' \in [Codes -> DateRange]
           /\ SummariesNeverOverstate'
           /\ \A c \in Codes : /\ Within(coverages[c], coverages'[c])
                               /\ Within(currencies[c], currencies'[c])
           /\ coverages' # coverages => Within(run[r].range, coverages'[run[r].code])
<1> DEFINE k     == run[r].code
           range == run[r].range
<1>1. /\ k \in Codes /\ range \in DateRange /\ range # NoRange
      /\ Within(range, RangeOf(RowsOf(k)))
      /\ coverages \in [Codes -> DateRange] /\ currencies \in [Codes -> DateRange]
  BY DEF IInv, TypeOK, RunState, RunOK
<1>2. ASSUME NEW c \in Codes
      PROVE  /\ RangeOf(RowsOf(c)) \in DateRange /\ RowsOf(c)' = RowsOf(c)
             /\ Within(coverages[c], RangeOf(RowsOf(c)))
             /\ Within(currencies[c], coverages[c])
             /\ Within(coverages[c], coverages[c])
             /\ Within(currencies[c], currencies[c])
  <2>1. RangeOf(RowsOf(c)) \in DateRange
    BY RowsType, RangeOfRows DEF IInv
  <2>2. \A x \in DateRange : Within(x, x)
    BY RangeCases, CoverageAssumption DEF Within
  <2>3. RowsOf(c)' = RowsOf(c)
    BY DEF RowsOf
  <2> QED  BY <1>1, <2>1, <2>2, <2>3 DEF IInv, SummariesNeverOverstate
<1>3. CASE UNCHANGED <<coverages, currencies>>
  BY <1>1, <1>2, <1>3 DEF SummariesNeverOverstate
<1>4. CASE /\ coverages' = [coverages EXCEPT ![k] = Widen(@, range)]
           /\ UNCHANGED currencies
  <2>1. /\ Widen(coverages[k], range) \in DateRange
        /\ Within(coverages[k], Widen(coverages[k], range))
        /\ Within(range, Widen(coverages[k], range))
        /\ Within(Widen(coverages[k], range), RangeOf(RowsOf(k)))
    BY <1>1, <1>2, WidenBounds
  <2>2. /\ coverages' \in [Codes -> DateRange]
        /\ coverages'[k] = Widen(coverages[k], range)
        /\ \A c \in Codes \ {k} : coverages'[c] = coverages[c]
    BY <1>1, <1>4, <2>1
  <2>3. Within(currencies[k], coverages'[k])
    BY <1>1, <1>2, <2>1, <2>2, WithinTrans
  <2> QED  BY <1>1, <1>2, <1>4, <2>1, <2>2, <2>3 DEF SummariesNeverOverstate
<1>5. CASE /\ run[r].pc = "currency"
           /\ currencies' = [currencies EXCEPT ![k] = Widen(@, range)]
           /\ UNCHANGED coverages
  <2>1. Within(range, coverages[k])
    BY <1>5 DEF IInv, RunOK
  <2>2. /\ Widen(currencies[k], range) \in DateRange
        /\ Within(currencies[k], Widen(currencies[k], range))
        /\ Within(Widen(currencies[k], range), coverages[k])
    BY <1>1, <1>2, <2>1, WidenBounds
  <2>3. /\ currencies' \in [Codes -> DateRange]
        /\ currencies'[k] = Widen(currencies[k], range)
        /\ \A c \in Codes \ {k} : currencies'[c] = currencies[c]
    BY <1>1, <1>5, <2>2
  <2> QED  BY <1>1, <1>2, <1>5, <2>2, <2>3 DEF SummariesNeverOverstate
<1> QED  BY <1>3, <1>4, <1>5 DEF UpsertMayHappen

(* The other runs do not notice an upsert.                                 *)
LEMMA OthersAfterUpsert ==
    ASSUME IInv, TypeOK', NEW q \in Runs, run'[q] = run[q], rates' = rates,
           \A c \in Codes : Within(coverages[c], coverages'[c])
    PROVE  RunOK(q)'
<1>1. run[q].code \in Codes /\ run[q].range \in DateRange /\ run[q].todo \subseteq Codes
  BY DEF IInv, TypeOK, RunState
<1>2. \A c \in Codes : RowsOf(c)' = RowsOf(c)
  BY DEF RowsOf
<1>3. /\ coverages[run[q].code] \in DateRange /\ coverages'[run[q].code] \in DateRange
  BY <1>1 DEF IInv, TypeOK
<1> QED  BY <1>1, <1>2, <1>3, WithinTrans DEF IInv, RunOK

LEMMA DatesKept ==
    ASSUME IInv, TypeOK',
           \A c \in Codes : /\ Within(coverages[c], coverages'[c])
                            /\ Within(currencies[c], currencies'[c])
    PROVE  \A c \in Codes, d \in 1..LastDate :
              /\ In(d, coverages[c]) => In(d, coverages'[c])
              /\ In(d, currencies[c]) => In(d, currencies'[c])
BY WithinIn DEF IInv, TypeOK

LEMMA UpsertCoverageInv ==
    ASSUME IInv, NEW r \in Runs, UpsertCoverage(r)
    PROVE  IInv'
<1> DEFINE s == [run[r] EXCEPT !.pc = "currency"]
<1>1. /\ run[r].pc = "coverage" /\ UpsertMayHappen(r)
      /\ run' = [run EXCEPT ![r] = s]
      /\ coverages' = [coverages EXCEPT ![run[r].code] = Widen(@, run[r].range)]
      /\ UNCHANGED <<published, rates, currencies, missed>>
  BY DEF UpsertCoverage, UpsertMayHappen, Become
<1>2. /\ s \in RunState /\ s.pc = "currency" /\ s.todo = run[r].todo
      /\ s.code = run[r].code /\ s.range = run[r].range
  BY DEF IInv, TypeOK, RunState
<1>3. /\ run' \in [Runs -> RunState] /\ run'[r] = s
      /\ \A q \in Runs \ {r} : run'[q] = run[q]
  <2> HIDE DEF s
  <2> QED  BY <1>1, <1>2 DEF IInv, TypeOK
<1>4. TypeOK' /\ SummariesNeverOverstate'
  BY <1>1, <1>3, UpsertOK DEF IInv, TypeOK
<1>5. Within(run[r].range, coverages'[run[r].code])
  <2>1. /\ run[r].code \in Codes /\ run[r].range \in DateRange /\ run[r].range # NoRange
        /\ coverages \in [Codes -> DateRange]
    BY <1>1 DEF IInv, TypeOK, RunState, RunOK
  <2> QED  BY <1>1, <2>1, WidenBounds
<1>6. RunOK(r)'
  <2>1. /\ run'[r].pc = "currency" /\ run'[r].todo = run[r].todo
        /\ run'[r].code = run[r].code /\ run'[r].range = run[r].range
    BY <1>2, <1>3
  <2>2. RowsOf(run[r].code)' = RowsOf(run[r].code)
    BY <1>1, <2>1 DEF RowsOf
  <2>3. \A k \in run'[r].todo : RowsOf(k)' # {}
    BY <1>1, <2>1 DEF IInv, RunOK, RowsOf
  <2>4. /\ run[r].range # NoRange
        /\ Within(run[r].range, RangeOf(RowsOf(run[r].code)))
    BY <1>1 DEF IInv, RunOK
  <2> QED  BY <1>5, <2>1, <2>2, <2>3, <2>4 DEF RunOK
<1>7. \A q \in Runs \ {r} : RunOK(q)'
  BY <1>1, <1>3, <1>4, UpsertOK, OthersAfterUpsert
<1>8. AllCovered'
  BY <1>1, <1>2, <1>3, <1>4, UpsertOK, DatesKept, StillCovered
<1> QED  BY <1>4, <1>6, <1>7, <1>8 DEF IInv

LEMMA UpsertCurrencyInv ==
    ASSUME IInv, NEW r \in Runs, UpsertCurrency(r)
    PROVE  IInv'
<1>1. /\ run[r].pc = "currency" /\ UpsertMayHappen(r) /\ NextCode(r, run[r].todo)
      /\ currencies' = [currencies EXCEPT ![run[r].code] = Widen(@, run[r].range)]
      /\ UNCHANGED <<published, rates, coverages, missed>>
  BY DEF UpsertCurrency, UpsertMayHappen
<1>2. /\ run[r].code \in Codes /\ run[r].range \in DateRange /\ run[r].range # NoRange
      /\ run[r].todo \in SUBSET Codes
      /\ Within(run[r].range, coverages[run[r].code])
      /\ coverages \in [Codes -> DateRange] /\ currencies \in [Codes -> DateRange]
  BY <1>1 DEF IInv, TypeOK, RunState, RunOK
<1>3. /\ run' \in [Runs -> RunState] /\ run'[r].todo = run[r].todo
      /\ run'[r].pc = IF run[r].todo = {} THEN "idle" ELSE "reading"
      /\ \A q \in Runs \ {r} : run'[q] = run[q]
  BY <1>1, <1>2, NextCodeType DEF IInv
<1>4. TypeOK' /\ SummariesNeverOverstate'
  BY <1>1, <1>3, UpsertOK DEF IInv, TypeOK
<1>5. \A d \in 1..LastDate : In(d, run[r].range) =>
         In(d, coverages'[run[r].code]) /\ In(d, currencies'[run[r].code])
  <2>1. /\ Within(run[r].range, currencies'[run[r].code])
        /\ currencies'[run[r].code] \in DateRange
    BY <1>1, <1>2, WidenBounds
  <2> QED  BY <1>1, <1>2, <2>1, WithinIn
<1>6. RunOK(r)'
  BY <1>1, <1>3 DEF IInv, RunOK, RowsOf
<1>7. \A q \in Runs \ {r} : RunOK(q)'
  BY <1>1, <1>3, <1>4, UpsertOK, OthersAfterUpsert
<1>8. AllCovered'
  BY <1>1, <1>3, <1>4, <1>5, UpsertOK, DatesKept, StillCovered
<1> QED  BY <1>4, <1>6, <1>7, <1>8 DEF IInv

(* A refresh breaks off, with its upsert done or not.                      *)
LEMMA StopInv ==
    ASSUME IInv, NEW r \in Runs, UpsertFails(r) \/ Crash(r)
    PROVE  IInv'
<1>1. /\ run[r].pc \in {"reading", "coverage", "currency"} /\ UpsertMayHappen(r)
      /\ missed' = missed \cup Pending(r) /\ UNCHANGED <<published, rates>>
  BY DEF UpsertFails, Crash
<1>2. PICK label \in {"idle", "crashed"} :
          run' = [run EXCEPT ![r] = [Idle EXCEPT !.pc = label]]
  <2>1. Idle = [Idle EXCEPT !.pc = "idle"]
    BY DEF Idle
  <2> QED  BY <2>1 DEF UpsertFails, Crash, Become
<1>3. /\ run' \in [Runs -> RunState]
      /\ run'[r].todo = {} /\ run'[r].pc = label
      /\ \A q \in Runs \ {r} : run'[q] = run[q]
  BY <1>2, StopType DEF IInv
<1>4. Pending(r) \subseteq Codes
  BY DEF Pending, IInv, TypeOK, RunState
<1>5. /\ coverages' \in [Codes -> DateRange] /\ currencies' \in [Codes -> DateRange]
      /\ SummariesNeverOverstate'
      /\ \A c \in Codes : /\ Within(coverages[c], coverages'[c])
                          /\ Within(currencies[c], currencies'[c])
  <2>1. CASE run[r].pc = "reading"
    <3>1. UNCHANGED <<coverages, currencies>>
      BY <1>1, <2>1 DEF UpsertMayHappen
    <3>2. \A x \in DateRange : Within(x, x)
      BY RangeCases, CoverageAssumption DEF Within
    <3> QED  BY <1>1, <3>1, <3>2 DEF IInv, TypeOK, SummariesNeverOverstate, RowsOf
  <2>2. CASE run[r].pc # "reading"
    BY <1>1, <2>2, UpsertOK
  <2> QED  BY <2>1, <2>2
<1>6. TypeOK'
  BY <1>1, <1>3, <1>4, <1>5 DEF IInv, TypeOK
<1>7. RunOK(r)'
  BY <1>3 DEF RunOK
<1>8. \A q \in Runs \ {r} : RunOK(q)'
  BY <1>1, <1>3, <1>5, <1>6, OthersAfterUpsert
<1>9. AllCovered'
  BY <1>1, <1>3, <1>5, <1>6, DatesKept, StillCovered DEF Pending
<1> QED  BY <1>5, <1>6, <1>7, <1>8, <1>9 DEF IInv

LEMMA RestartInv ==
    ASSUME IInv, NEW r \in Runs, Restart(r)
    PROVE  IInv'
<1>1. /\ run[r].pc = "crashed" /\ run[r].todo = {}
      /\ UNCHANGED <<published, rates, coverages, currencies, missed>>
  BY DEF Restart, IInv, RunOK
<1>2. run' = [run EXCEPT ![r] = [Idle EXCEPT !.pc = "idle"]]
  BY DEF Restart, Become, Idle
<1>3. /\ run' \in [Runs -> RunState]
      /\ run'[r].todo = {} /\ run'[r].pc = "idle"
      /\ \A q \in Runs \ {r} : run'[q] = run[q]
  BY <1>2, StopType DEF IInv
<1>4. TypeOK'
  BY <1>1, <1>3 DEF IInv, TypeOK
<1>5. RunOK(r)'
  BY <1>3 DEF RunOK
<1>6. AllCovered'
  BY <1>1, <1>3, StillCovered
<1> QED  BY <1>1, <1>3, <1>4, <1>5, <1>6, RowsGrow DEF IInv

LEMMA StepInv == IInv /\ [Next]_vars => IInv'
<1> SUFFICES ASSUME IInv, [Next]_vars PROVE IInv'
  OBVIOUS
<1>1. CASE Next
  BY <1>1, StoreBatchInv, StoreUnconfirmedInv, ReadRangeInv, ReadFailsInv,
     UpsertCoverageInv, UpsertCurrencyInv, StopInv, RestartInv DEF Next
<1>2. CASE UNCHANGED vars
  <2>1. TypeOK'
    BY <1>2 DEF vars, IInv, TypeOK
  <2>2. AllCovered'
    BY <1>2 DEF vars, IInv, AllCovered, Covered, RowsOf
  <2> QED  BY <1>2, <2>1, <2>2, RowsGrow DEF vars, IInv
<1> QED  BY <1>1, <1>2

(* What holds however the statements of the runs interleave.               *)
THEOREM Invariance == Spec => []IInv
<1> QED  BY InitInv, StepInv, PTL DEF Spec

-----------------------------------------------------------------------------
(* The types hold for any number of runs, quotes and days.                 *)
THEOREM TypeCorrect == Spec => []TypeOK
<1>1. IInv => TypeOK
  BY DEF IInv
<1> QED  BY <1>1, Invariance, PTL

(* No summary ever claims a day beyond the rows that are stored            *)
(* (UpsertCurrencySummary).                                                *)
THEOREM NeverOverstated == Spec => []SummariesNeverOverstate
<1>1. IInv => SummariesNeverOverstate
  BY DEF IInv
<1> QED  BY <1>1, Invariance, PTL

(* A code that no run is refreshing and no refresh of which was lost has   *)
(* the exact range of its rows, in both tables (UpsertCurrencySummary).    *)
THEOREM Exact == Spec => []SummariesExact
<1>1. IInv => SummariesExact
  <2> SUFFICES ASSUME IInv, NEW c \in Codes \ missed,
                      \A r \in Runs : c \notin Pending(r)
               PROVE  /\ coverages[c] = RangeOf(RowsOf(c))
                      /\ currencies[c] = coverages[c]
    BY DEF SummariesExact
  <2> DEFINE range == RangeOf(RowsOf(c))
  <2>1. /\ coverages[c] \in DateRange /\ currencies[c] \in DateRange
        /\ range \in DateRange
        /\ Within(coverages[c], range) /\ Within(currencies[c], coverages[c])
    BY RowsType, RangeOfRows DEF IInv, TypeOK, SummariesNeverOverstate
  <2>2. \A row \in RowsOf(c) : In(row.date, coverages[c]) /\ In(row.date, currencies[c])
    BY DEF IInv, AllCovered, Covered, Pending
  <2>3. CASE RowsOf(c) = {}
    <3>1. range = NoRange
      BY <2>3, RowsType, RangeOfRows DEF IInv
    <3> QED  BY <2>1, <3>1 DEF Within
  <2>4. CASE RowsOf(c) # {}
    <3>1. range # NoRange /\ \E a, b \in RowsOf(c) : a.date = range.start /\ b.date = range.end
      BY <2>4, RowsType, RangeOfRows DEF IInv
    <3>2. /\ In(range.start, coverages[c]) /\ In(range.end, coverages[c])
          /\ In(range.start, currencies[c]) /\ In(range.end, currencies[c])
      BY <2>2, <3>1
    <3> HIDE DEF range
    <3>3. /\ coverages[c] # NoRange /\ currencies[c] # NoRange
          /\ coverages[c].start = range.start /\ coverages[c].end = range.end
          /\ currencies[c].start = range.start /\ currencies[c].end = range.end
      BY <2>1, <3>1, <3>2, RangeCases, CoverageAssumption DEF In, Within
    <3>4. coverages[c] = range /\ currencies[c] = range
      BY <2>1, <3>1, <3>3, RangeCases
    <3> QED  BY <3>4 DEF range
  <2> QED  BY <2>3, <2>4
<1> QED  BY <1>1, Invariance, PTL
=============================================================================
