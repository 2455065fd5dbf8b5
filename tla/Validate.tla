------------------------------ MODULE Validate ------------------------------
(***************************************************************************)
(* cmd/fx-validate: it selects the ECB's stored rates, looks up for each   *)
(* the rate the ECB published through Frankfurter, gives it a verdict, and *)
(* writes a report (internal/validator/validator.go).                      *)
(*                                                                         *)
(* The reference is external: it may publish or restate rates between two  *)
(* requests, lists the items of an answer in any order, and may fail.  It  *)
(* keeps to the from and quotes of a request; the code itself drops what   *)
(* is later than the day or has another base.                              *)
(*                                                                         *)
(* A rate is a ratio of naturals, so that nothing is rounded here as the   *)
(* float64 of the code is.  A reference rate may be 0; a negative one,     *)
(* which the code would take without complaint, is left out.               *)
(***************************************************************************)
EXTENDS Integers, Sequences

CONSTANTS
    Currencies,
    Eur,
    Tables,      \* contents of rates for ECB, by date, base and quote
    Flags,       \* date_from, date_to, base, quote and limit of an invocation
    References,  \* sets of items the reference may have published
    Lookback,    \* days before a record's that a request covers: 7
    MaxInt32

NotGiven == -1  \* a filter that is not given
NoDay    == -1  \* no effective date

StoredRates ==
    [date : Nat, base : Currencies, quote : Currencies,
     rate : [n : Nat, d : Nat \ {0}]]

Items == [date : Nat, base : Currencies, quote : Currencies, rate : Nat]

ASSUME DataAssumption ==
    /\ Eur \in Currencies
    /\ Tables \subseteq Seq(StoredRates)
    /\ References \subseteq SUBSET Items

ASSUME ValidateAssumption ==
    /\ Lookback \in Nat /\ MaxInt32 \in Nat \ {0}
    /\ \A f \in Flags : f.limit \in 1..(2 * (MaxInt32 + 1) + MaxInt32)

VARIABLES
    flags,
    published,   \* the reference
    selected,    \* the stored rates to validate
    pc,
    cache,       \* the snapshots, by the day they were asked for
    answer,      \* the items of the current answer not yet read
    latest,      \* latestDate
    rates,       \* the rates of latestDate read so far
    lines,       \* results
    report,      \* the output file
    exit,
    answers      \* history: the whole answers, by the day asked for

readVars == <<answer, latest, rates>>
vars == <<flags, published, selected, pc, cache, readVars, lines, report, exit,
          answers>>

Earlier == [fresh |-> FALSE, lines |-> <<>>]

Init ==
    /\ flags \in Flags
    /\ published \in References
    /\ selected = <<>>
    /\ pc = "start"
    /\ cache = <<>>
    /\ answer = {}
    /\ latest = NoDay
    /\ rates = <<>>
    /\ lines = <<>>
    /\ report = Earlier
    /\ exit = NoDay
    /\ answers = <<>>

(* An assignment to an entry of a map.                                     *)
With(map, key, value) ==
    [k \in DOMAIN map \cup {key} |-> IF k = key THEN value ELSE map[k]]

Exit(code) == pc' = "over" /\ exit' = code

(* The publications of the reference while the program runs.               *)
Publish ==
    /\ pc # "over"
    /\ \E p \in References \ {published} : published' = p
    /\ UNCHANGED <<flags, selected, pc, cache, readVars, lines, report, exit,
                   answers>>

-----------------------------------------------------------------------------
(* int32(cfg.limit).                                                       *)
Int32(n) ==
    LET m == n % (2 * (MaxInt32 + 1))
    IN  IF m > MaxInt32 THEN m - 2 * (MaxInt32 + 1) ELSE m

Matches(f, r) ==
    /\ f.from  = NotGiven \/ r.date >= f.from
    /\ f.to    = NotGiven \/ r.date <= f.to
    /\ f.base  = NotGiven \/ r.base = f.base
    /\ f.quote = NotGiven \/ r.quote = f.quote

(* FetchRatesForValidation, as the places in the table of what it returns: *)
(* in the table's order, nothing that does not match, and every match that *)
(* the limit leaves room for.                                              *)
Picks(f, table, limit) ==
    {pick \in UNION {[1..n -> DOMAIN table] : n \in 0..Len(table)} :
        /\ \A j, k \in DOMAIN pick : j < k => pick[j] < pick[k]
        /\ \A k \in DOMAIN pick : Matches(f, table[pick[k]])
        /\ Len(pick) <= limit
        /\ \A i \in DOMAIN table :
              \/ ~Matches(f, table[i])
              \/ \E k \in DOMAIN pick : pick[k] = i
              \/ Len(pick) = limit /\ \A k \in DOMAIN pick : pick[k] < i}

RowsAt(table, pick) == [k \in DOMAIN pick |-> table[pick[k]]]

(* A flag is refused, the configuration, the pool or the query fails.      *)
CannotSelect ==
    /\ pc = "start"
    /\ Exit(1)
    /\ UNCHANGED <<flags, published, selected, cache, readVars, lines, report,
                   answers>>

(* Faulty variant: the output is opened before the records are validated.  *)
FetchRecordsOpening ==
    /\ pc = "start"
    /\ Int32(flags.limit) >= 0
    /\ \E table \in Tables :
          \E pick \in Picks(flags, table, Int32(flags.limit)) :
             selected' = RowsAt(table, pick)
    /\ IF selected' = <<>> THEN Exit(0) ELSE pc' = "next" /\ UNCHANGED exit
    /\ report' = [fresh |-> TRUE, lines |-> <<>>]
    /\ UNCHANGED <<flags, published, cache, readVars, lines, answers>>

(* A negative LIMIT is an error of the query (CannotSelect).               *)
FetchRecords ==
    /\ pc = "start"
    /\ Int32(flags.limit) >= 0
    /\ \E table \in Tables :
          \E pick \in Picks(flags, table, Int32(flags.limit)) :
             selected' = RowsAt(table, pick)
    /\ IF selected' = <<>> THEN Exit(0) ELSE pc' = "next" /\ UNCHANGED exit
    /\ UNCHANGED <<flags, published, cache, readVars, lines, report, answers>>

-----------------------------------------------------------------------------
Symbols == UNION {{selected[i].base, selected[i].quote} : i \in DOMAIN selected}
               \ {Eur}

Record == selected[Len(lines) + 1]

HasNext == pc = "next" /\ Len(lines) < Len(selected)

(* No request is needed: a pair of one currency, or a day asked before.    *)
Known ==
    /\ HasNext
    /\ Record.base = Record.quote \/ Record.date \in DOMAIN cache
    /\ pc' = "judge"
    /\ UNCHANGED <<flags, published, selected, cache, readVars, lines, report,
                   exit, answers>>

(* Faulty variant: a day may be asked for again.                           *)
AsksAgain == HasNext /\ Record.base # Record.quote

Asks ==
    /\ HasNext
    /\ Record.base # Record.quote
    /\ Record.date \notin DOMAIN cache

Window == {i \in published : /\ i.date >= Record.date - Lookback
                             /\ i.quote \in Symbols}

(* The answer to the request of snapshotForDate.                           *)
Answered ==
    /\ Asks
    /\ \/ answer' = Window
       \/ answer' = {i \in Window : i.date <= Record.date /\ i.base = Eur}
    /\ latest' = NoDay
    /\ rates' = <<>>
    /\ answers' = With(answers, Record.date, answer')
    /\ pc' = "items"
    /\ UNCHANGED <<flags, published, selected, cache, lines, report, exit>>

(* The request fails, its status is not 200, or the body does not decode.  *)
LookupFails ==
    /\ Asks
    /\ Exit(1)
    /\ UNCHANGED <<flags, published, selected, cache, readVars, lines, report,
                   answers>>

(* Faulty variant: the rates of an earlier day stay.                       *)
TakeKeeping(i) ==
    /\ latest' = IF i.date > latest THEN i.date ELSE latest
    /\ rates'  = IF i.date >= latest THEN With(rates, i.quote, i.rate) ELSE rates

(* A later day starts the rates anew.                                      *)
Take(i) ==
    /\ latest' = IF i.date > latest THEN i.date ELSE latest
    /\ rates'  = CASE i.date > latest -> With(<<>>, i.quote, i.rate)
                   [] i.date = latest -> With(rates, i.quote, i.rate)
                   [] OTHER           -> rates

(* Faulty variant: an item of a later day is taken.                        *)
WantedAnyDay(i) == i.base = Eur

Wanted(i) == i.base = Eur /\ i.date <= Record.date

ReadItem ==
    /\ pc = "items"
    /\ \E i \in answer :
          /\ answer' = answer \ {i}
          /\ IF Wanted(i) THEN Take(i) ELSE UNCHANGED <<latest, rates>>
    /\ UNCHANGED <<flags, published, selected, pc, cache, lines, report, exit,
                   answers>>

EndOfAnswer ==
    /\ pc = "items"
    /\ answer = {}
    /\ cache' = With(cache, Record.date, [day |-> latest, rates |-> rates])
    /\ pc' = "judge"
    /\ UNCHANGED <<flags, published, selected, readVars, lines, report, exit,
                   answers>>

-----------------------------------------------------------------------------
NoRate == [n |-> 0, d |-> 0]
Whole(n) == [n |-> n, d |-> 1]

(* Rates are per euro.                                                     *)
Has(eurRates, c)     == c = Eur \/ c \in DOMAIN eurRates
EurRate(eurRates, c) == IF c = Eur THEN 1 ELSE eurRates[c]

CrossRate(eurRates, base, quote) ==
    IF /\ Has(eurRates, base) /\ EurRate(eurRates, base) # 0
       /\ Has(eurRates, quote)
    THEN [n |-> EurRate(eurRates, quote), d |-> EurRate(eurRates, base)]
    ELSE NoRate

LookupRate(r) ==
    IF r.base = r.quote         THEN Whole(1)
    ELSE IF cache[r.date].day = NoDay THEN NoRate
    ELSE CrossRate(cache[r.date].rates, r.base, r.quote)

AbsDiff(m, n) == IF m >= n THEN m - n ELSE n - m

(* |stored - online| <= online / share, without a division.                *)
Within(stored, online, share) ==
    share * AbsDiff(stored.n * online.d, online.n * stored.d) <= online.n * stored.d

(* A reference of zero leaves the relative difference at zero.             *)
Classify(stored, online) ==
    CASE online = NoRate -> "MISSING"
      [] online # NoRate /\ (online.n = 0 \/ Within(stored, online, 1000)) -> "OK"
      [] online.n > 0 /\ ~Within(stored, online, 1000)
                      /\ Within(stored, online, 100) -> "WARNING"
      [] OTHER -> "INVALID"

Result(r) ==
    LET online == LookupRate(r)
    IN  [date |-> r.date, base |-> r.base, quote |-> r.quote,
         online |-> online, status |-> Classify(r.rate, online)]

(* Faulty variant: a record without a reference is passed over.            *)
ValidateOneSkipping ==
    /\ pc = "judge"
    /\ IF LookupRate(Record) = NoRate
       THEN /\ selected' = SubSeq(selected, 1, Len(lines))
                              \o SubSeq(selected, Len(lines) + 2, Len(selected))
            /\ UNCHANGED lines
       ELSE /\ lines' = Append(lines, Result(Record))
            /\ UNCHANGED selected
    /\ pc' = "next"
    /\ UNCHANGED <<flags, published, cache, readVars, report, exit, answers>>

ValidateOne ==
    /\ pc = "judge"
    /\ lines' = Append(lines, Result(Record))
    /\ pc' = "next"
    /\ UNCHANGED <<flags, published, selected, cache, readVars, report, exit,
                   answers>>

-----------------------------------------------------------------------------
Validated == pc = "next" /\ Len(lines) = Len(selected)

(* The path is refused or the file cannot be created.                      *)
CannotOpen ==
    /\ Validated
    /\ Exit(1)
    /\ UNCHANGED <<flags, published, selected, cache, readVars, lines, report,
                   answers>>

(* os.Create: what the file held is gone.                                  *)
OutputWriter ==
    /\ Validated
    /\ report' = [fresh |-> TRUE, lines |-> <<>>]
    /\ pc' = "write"
    /\ UNCHANGED <<flags, published, selected, cache, readVars, lines, exit,
                   answers>>

WriteCSV ==
    /\ pc = "write"
    /\ report' = [report EXCEPT !.lines = lines]
    /\ Exit(0)
    /\ UNCHANGED <<flags, published, selected, cache, readVars, lines, answers>>

(* The disk is full, after some of the lines.                              *)
WriteFails ==
    /\ pc = "write"
    /\ \E n \in 0..(Len(lines) - 1) :
          report' = [report EXCEPT !.lines = SubSeq(lines, 1, n)]
    /\ Exit(1)
    /\ UNCHANGED <<flags, published, selected, cache, readVars, lines, answers>>

Over == pc = "over" /\ UNCHANGED vars

Next ==
    \/ Publish
    \/ CannotSelect \/ FetchRecords
    \/ Known \/ Answered \/ LookupFails \/ ReadItem \/ EndOfAnswer \/ ValidateOne
    \/ CannotOpen \/ OutputWriter \/ WriteCSV \/ WriteFails
    \/ Over

Spec == Init /\ [][Next]_vars

-----------------------------------------------------------------------------
TypeOK ==
    /\ flags \in Flags /\ published \in References
    /\ pc \in {"start", "next", "items", "judge", "write", "over"}
    /\ answer \subseteq UNION References
    /\ latest \in {i.date : i \in UNION References} \cup {NoDay}
    /\ \A d \in DOMAIN cache : cache[d].day \in {NoDay} \cup 0..d
    /\ Len(lines) <= Len(selected)
    /\ exit \in {NoDay, 0, 1}
    /\ exit # NoDay <=> pc = "over"

(* A report of a run that succeeds is whole: one line for each stored rate *)
(* the filters select, in their order, up to the limit, and no report is   *)
(* written only when nothing matches (main, Validate).  A limit beyond     *)
(* int32 wraps and is left out: one of 2^32 says that no row matched.      *)
ReportIsWhole ==
    exit = 0 /\ flags.limit <= MaxInt32 =>
        \E table \in Tables :
            \E pick \in Picks(flags, table, flags.limit) :
                LET rows == RowsAt(table, pick)
                IN  /\ report.fresh <=> rows # <<>>
                    /\ Len(report.lines) = Len(rows)
                    /\ \A i \in DOMAIN rows :
                          /\ report.lines[i].date = rows[i].date
                          /\ report.lines[i].base = rows[i].base
                          /\ report.lines[i].quote = rows[i].quote

(* A run that fails before every record has its verdict leaves the earlier *)
(* report as it was (main validates before outputWriter).                  *)
EarlierReportKept ==
    exit = 1 /\ (selected = <<>> \/ Len(lines) < Len(selected)) => report = Earlier

(* The day the reference of a record comes from, defined from the answer.  *)
ReferenceDay(d) ==
    LET days == {i.date : i \in {j \in answers[d] : j.base = Eur /\ j.date <= d}}
    IN  IF days = {} THEN NoDay ELSE CHOOSE m \in days : \A n \in days : n <= m

(* The EUR rates of c that the answer for d lists on its reference day.    *)
Listed(d, c) ==
    IF c = Eur THEN {1}
    ELSE {i.rate : i \in {j \in answers[d] : j.base = Eur /\ j.quote = c
                                             /\ j.date = ReferenceDay(d)}}

(* Whatever the order of the items, a verdict rests on the rates of one    *)
(* day: the last one published up to the record's.  It is MISSING only     *)
(* when that day lacks one of the two currencies or lists the base at      *)
(* zero, even if the day before has both; otherwise the reference is the   *)
(* ratio of two rates of that day, and OK is only what is near it, or a    *)
(* rate of zero (snapshotForDate, crossRate, classify).                    *)
VerdictFromOneDay ==
    \A i \in DOMAIN lines :
        LET l == lines[i]
            stored == selected[i].rate
        IN  l.base # l.quote =>
              IF l.status = "MISSING"
              THEN \/ Listed(l.date, l.base) = {} \/ Listed(l.date, l.quote) = {}
                   \/ 0 \in Listed(l.date, l.base)
              ELSE \E b \in Listed(l.date, l.base) \ {0}, q \in Listed(l.date, l.quote) :
                      /\ l.online.n * b = q * l.online.d
                      /\ l.status = "OK" /\ q > 0 =>
                            1000 * AbsDiff(stored.n * b, q * stored.d)
                               <= q * stored.d

(* The references of one day agree among themselves, although each record  *)
(* looks up its own and the reference may be restated meanwhile: the rate  *)
(* of a to b times that of b to c is that of a to c (the cache of          *)
(* snapshotForDate).                                                       *)
ReferencesAgree ==
    \A i, j, k \in DOMAIN lines :
        LET x == lines[i]
            y == lines[j]
            z == lines[k]
        IN  /\ x.date = y.date /\ y.date = z.date
            /\ x.quote = y.base /\ x.base = z.base /\ y.quote = z.quote
            /\ NoRate \notin {x.online, y.online, z.online}
            => x.online.n * y.online.n * z.online.d
                 = x.online.d * y.online.d * z.online.n
=============================================================================
