------------------------------ MODULE Coverage ------------------------------
(***************************************************************************)
(* The per-currency summaries kept beside the rates table:                 *)
(* currency_coverages and currencies hold, for every currency code, the    *)
(* first and the last date it was observed.  After a batch that added rows *)
(* is committed, processBatch refreshes the codes of the batch one by one, *)
(* outside any transaction: read the range, upsert the coverage, upsert    *)
(* the currency.  Overlapping runs interleave between those statements; a  *)
(* failed statement is at most logged.                                     *)
(*                                                                         *)
(* The runs of this module are those of Backfill, reduced to the batches   *)
(* they store: a batch is whatever was published in some window of days.   *)
(***************************************************************************)
EXTENDS Integers, FiniteSetsExt

CONSTANTS
    Runs,       \* job invocations
    Quotes,     \* quote currencies
    Base,       \* the base currency of every row (EUR)
    LastDate,   \* bound: rows are dated 1..LastDate
    Histories   \* what the upstream may have published

Row == [date : 1..LastDate, quote : Quotes]

ASSUME CoverageAssumption ==
    /\ Base \notin Quotes
    /\ LastDate \in Nat
    /\ Histories \subseteq SUBSET Row

VARIABLES
    published,   \* the rows the upstream has
    rates,       \* the rates table
    coverages,   \* currency_coverages: a date range for each code
    currencies,  \* currencies: a date range for each code
    run,         \* the refresh each run is in
    missed       \* history: codes a refresh of which was lost

vars == <<published, rates, coverages, currencies, run, missed>>

Codes == Quotes \cup {Base}

NoRange == [start |-> 0, end |-> 0]   \* no summary row, or MIN and MAX of nothing
DateRange == [start : 1..LastDate, end : 1..LastDate] \cup {NoRange}

RunState ==
    [ pc    : {"idle", "reading", "coverage", "currency", "crashed"},
      todo  : SUBSET Codes,           \* codes still to refresh
      code  : Codes,                  \* the one being refreshed
      range : DateRange ]             \* its range as it was read

Idle == [pc |-> "idle", todo |-> {}, code |-> Base, range |-> NoRange]

(* GetCurrencyDateRange                                                    *)
RowsOf(code) == {row \in rates : code = Base \/ row.quote = code}
RangeOf(rows) ==
    LET dates == {row.date : row \in rows}
    IN  IF rows = {} THEN NoRange ELSE [start |-> Min(dates), end |-> Max(dates)]

(* Faulty variant: the upsert overwrites the range.                        *)
Overwrite(old, new) == new

(* Faulty variant: a missing row counts as a range from 0 to 0.            *)
WidenFromZero(old, new) ==
    [start |-> Min({old.start, new.start}), end |-> Max({old.end, new.end})]

(* The LEAST and GREATEST of both upserts.                                 *)
Widen(old, new) ==
    IF old = NoRange THEN new
    ELSE [start |-> Min({old.start, new.start}), end |-> Max({old.end, new.end})]

(* uniqueCurrencies                                                        *)
CodesOf(rows) == {Base} \cup {row.quote : row \in rows}

Window(from, to) == {row \in published : from <= row.date /\ row.date <= to}

(* The codes whose refresh is lost when run r stops now.                   *)
Pending(r) ==
    run[r].todo \cup (IF run[r].pc \in {"coverage", "currency"} THEN {run[r].code} ELSE {})

Become(r, rec) == run' = [run EXCEPT ![r] = rec]

(* The loop of UpsertCurrencySummary goes to the next code, or ends.       *)
NextCode(r, todo) ==
    Become(r, IF todo = {} THEN Idle ELSE [Idle EXCEPT !.pc = "reading", !.todo = todo])

-----------------------------------------------------------------------------
Init ==
    /\ published \in Histories
    /\ rates = {}
    /\ coverages = [c \in Codes |-> NoRange]
    /\ currencies = [c \in Codes |-> NoRange]
    /\ run = [r \in Runs |-> Idle]
    /\ missed = {}

(* A batch, empty perhaps, is committed; the codes of all its rows are     *)
(* refreshed when at least one row was new.                                *)
StoreBatch(r) ==
    /\ run[r].pc = "idle"
    /\ \E from, to \in 1..LastDate :
          LET batch == Window(from, to)
          IN  /\ rates' = rates \cup batch
              /\ NextCode(r, IF batch \subseteq rates THEN {} ELSE CodesOf(batch))
    /\ UNCHANGED <<published, coverages, currencies, missed>>

(* The commit takes effect but its answer is lost: bulkUpsertRates returns *)
(* an error and nothing is refreshed.                                      *)
StoreUnconfirmed(r) ==
    /\ run[r].pc = "idle"
    /\ \E from, to \in 1..LastDate :
          LET batch == Window(from, to)
          IN  /\ ~ batch \subseteq rates
              /\ rates' = rates \cup batch
              /\ missed' = missed \cup CodesOf(batch)
    /\ UNCHANGED <<published, coverages, currencies, run>>

(* uniqueCurrencies puts the base first.                                   *)
NextIs(r, c) == c \in run[r].todo /\ (Base \in run[r].todo => c = Base)

ReadRange(r) ==
    /\ run[r].pc = "reading"
    /\ \E c \in run[r].todo :
          /\ NextIs(r, c)
          /\ Become(r, [pc |-> "coverage", todo |-> run[r].todo \ {c},
                        code |-> c, range |-> RangeOf(RowsOf(c))])
    /\ UNCHANGED <<published, rates, coverages, currencies, missed>>

(* A failed read skips the code without a word.                            *)
ReadFails(r) ==
    /\ run[r].pc = "reading"
    /\ \E c \in run[r].todo :
          /\ NextIs(r, c)
          /\ NextCode(r, run[r].todo \ {c})
          /\ missed' = missed \cup {c}
    /\ UNCHANGED <<published, rates, coverages, currencies>>

(* Faulty variant: the currency is upserted first.                         *)
UpsertCurrencyFirst(r) ==
    /\ run[r].pc = "coverage"
    /\ currencies' = [currencies EXCEPT ![run[r].code] = Widen(@, run[r].range)]
    /\ Become(r, [run[r] EXCEPT !.pc = "currency"])
    /\ UNCHANGED <<published, rates, coverages, missed>>

UpsertCoverage(r) ==
    /\ run[r].pc = "coverage"
    /\ coverages' = [coverages EXCEPT ![run[r].code] = Widen(@, run[r].range)]
    /\ Become(r, [run[r] EXCEPT !.pc = "currency"])
    /\ UNCHANGED <<published, rates, currencies, missed>>

UpsertCurrency(r) ==
    /\ run[r].pc = "currency"
    /\ currencies' = [currencies EXCEPT ![run[r].code] = Widen(@, run[r].range)]
    /\ NextCode(r, run[r].todo)
    /\ UNCHANGED <<published, rates, coverages, missed>>

(* The upsert a run is at takes effect or not.                             *)
UpsertMayHappen(r) ==
    \/ UNCHANGED <<coverages, currencies>>
    \/ /\ run[r].pc = "coverage"
       /\ coverages' = [coverages EXCEPT ![run[r].code] = Widen(@, run[r].range)]
       /\ UNCHANGED currencies
    \/ /\ run[r].pc = "currency"
       /\ currencies' = [currencies EXCEPT ![run[r].code] = Widen(@, run[r].range)]
       /\ UNCHANGED coverages

(* An upsert fails, or its answer is lost: the rest of the codes is        *)
(* dropped and processBatch goes on with a warning.                        *)
UpsertFails(r) ==
    /\ run[r].pc \in {"coverage", "currency"}
    /\ UpsertMayHappen(r)
    /\ Become(r, Idle)
    /\ missed' = missed \cup Pending(r)
    /\ UNCHANGED <<published, rates>>

Crash(r) ==
    /\ run[r].pc \in {"reading", "coverage", "currency"}
    /\ UpsertMayHappen(r)
    /\ Become(r, [Idle EXCEPT !.pc = "crashed"])
    /\ missed' = missed \cup Pending(r)
    /\ UNCHANGED <<published, rates>>

(* The next scheduled run takes the place of a dead one.                   *)
Restart(r) ==
    /\ run[r].pc = "crashed"
    /\ Become(r, Idle)
    /\ UNCHANGED <<published, rates, coverages, currencies, missed>>

Next ==
    \E r \in Runs :
        \/ StoreBatch(r) \/ StoreUnconfirmed(r)
        \/ ReadRange(r) \/ ReadFails(r)
        \/ UpsertCoverage(r) \/ UpsertCurrency(r) \/ UpsertFails(r)
        \/ Crash(r) \/ Restart(r)

Spec == Init /\ [][Next]_vars

-----------------------------------------------------------------------------
TypeOK ==
    /\ published \subseteq Row
    /\ rates \subseteq published
    /\ coverages \in [Codes -> DateRange]
    /\ currencies \in [Codes -> DateRange]
    /\ run \in [Runs -> RunState]
    /\ missed \subseteq Codes

(* A code no refresh of which was lost, and which no run is refreshing,    *)
(* has the exact range of its rows in both tables, whatever the order in   *)
(* which overlapping runs read and wrote it (UpsertCurrencySummary and the *)
(* LEAST and GREATEST of its upserts).                                     *)
SummariesExact ==
    \A c \in Codes \ missed :
        (\A r \in Runs : c \notin Pending(r))
            => /\ coverages[c] = RangeOf(RowsOf(c))
               /\ currencies[c] = coverages[c]

(* Even in the middle of refreshes, and after lost ones, no summary claims *)
(* a date beyond the rows there are, and currencies never claims more than *)
(* currency_coverages does: a reader of either is never promised rates     *)
(* that are not stored (UpsertCurrencySummary).                            *)
Within(inner, outer) ==
    inner # NoRange => outer # NoRange /\ outer.start <= inner.start /\ inner.end <= outer.end
SummariesNeverOverstate ==
    \A c \in Codes :
        /\ Within(coverages[c], RangeOf(RowsOf(c)))
        /\ Within(currencies[c], coverages[c])
=============================================================================
