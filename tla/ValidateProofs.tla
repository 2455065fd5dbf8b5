--------------------------- MODULE ValidateProofs ---------------------------
(***************************************************************************)
(* Proofs about fx-validate: a report is whole or the earlier one, and     *)
(* every verdict rests on the rates of one day.                            *)
(***************************************************************************)
EXTENDS Validate, TLAPS

(* The types of a line and of a snapshot's rates.                          *)
Verdicts == {"MISSING", "OK", "WARNING", "INVALID"}

Lines ==
    [date : Nat, base : Currencies, quote : Currencies,
     online : [n : Nat, d : Nat], status : Verdicts]

(* What the code reads of the items of an answer for day d.                *)
WantedOf(items, d) == {i \in items : i.base = Eur /\ i.date <= d}

(* A day and its rates are those of the last of some items.                *)
Summarises(day, rs, items) ==
    /\ items = {} => day = NoDay
    /\ items # {} => \E i \in items : i.date = day
    /\ \A i \in items : i.date <= day
    /\ DOMAIN rs = {i.quote : i \in {j \in items : j.date = day}}
    /\ \A c \in DOMAIN rs :
          \E i \in items : i.date = day /\ i.quote = c /\ i.rate = rs[c]

(* Every snapshot summarises the whole answer to its request.              *)
CacheOK ==
    \A d \in DOMAIN cache :
        /\ d \in Nat /\ d \in DOMAIN answers
        /\ answers[d] \in SUBSET Items
        /\ Summarises(cache[d].day, cache[d].rates, WantedOf(answers[d], d))

(* While an answer is read, the part read is summarised.                   *)
ReadingOK ==
    pc = "items" =>
        /\ Len(lines) < Len(selected)
        /\ Record.base # Record.quote
        /\ Record.date \notin DOMAIN cache
        /\ Record.date \in DOMAIN answers
        /\ answers[Record.date] \in SUBSET Items
        /\ answer \subseteq answers[Record.date]
        /\ Summarises(latest, rates,
                      WantedOf(answers[Record.date] \ answer, Record.date))

JudgingOK ==
    pc = "judge" =>
        /\ Len(lines) < Len(selected)
        /\ Record.base # Record.quote => Record.date \in DOMAIN cache

(* Every line is what its record would still be given.                     *)
LinesOK ==
    \A k \in DOMAIN lines :
        /\ lines[k] = Result(selected[k])
        /\ selected[k].base # selected[k].quote
              => selected[k].date \in DOMAIN cache

SelectedOK ==
    \/ exit = 1 \/ pc = "start"
    \/ \E table \in Tables :
          \E pick \in Picks(flags, table, Int32(flags.limit)) :
             selected = RowsAt(table, pick)

(* What the output file holds, by how far the program is.                  *)
ReportOK ==
    /\ pc = "start" => selected = <<>> /\ lines = <<>>
    /\ pc \in {"next", "items", "judge", "write"} => selected # <<>>
    /\ pc \in {"start", "next", "items", "judge"} => report = Earlier
    /\ pc = "write" =>
          report = [fresh |-> TRUE, lines |-> <<>>] /\ Len(lines) = Len(selected)
    /\ exit = 0 =>
          \/ selected = <<>> /\ report = Earlier
          \/ /\ selected # <<>> /\ Len(lines) = Len(selected)
             /\ report = [fresh |-> TRUE, lines |-> lines]
    /\ exit = 1 =>
          \/ report = Earlier
          \/ selected # <<>> /\ Len(lines) = Len(selected)

Sequenced == selected \in Seq(StoredRates) /\ lines \in Seq(Lines)

IInv ==
    /\ TypeOK /\ Sequenced
    /\ CacheOK /\ ReadingOK /\ JudgingOK /\ LinesOK
    /\ SelectedOK /\ ReportOK

-----------------------------------------------------------------------------
(* The operators.                                                          *)

(* A limit that fits is the limit of the query.                            *)
LEMMA Int32Fits ==
    ASSUME NEW n \in Nat, n <= MaxInt32
    PROVE  Int32(n) = n
BY ValidateAssumption DEF Int32

LEMMA RowsAtPicks ==
    ASSUME NEW f, NEW limit, NEW table \in Tables,
           NEW pick \in Picks(f, table, limit)
    PROVE  /\ RowsAt(table, pick) \in Seq(StoredRates)
           /\ DOMAIN RowsAt(table, pick) = 1..Len(RowsAt(table, pick))
BY DataAssumption DEF Picks, RowsAt

(* A cross rate is a ratio of naturals, and one to no zero if there is one. *)
LEMMA CrossRateIsRatio ==
    ASSUME NEW rs, NEW base, NEW quote, \A c \in DOMAIN rs : rs[c] \in Nat
    PROVE  /\ CrossRate(rs, base, quote) \in [n : Nat, d : Nat]
           /\ CrossRate(rs, base, quote) = NoRate
                 <=> \/ ~ Has(rs, base) \/ EurRate(rs, base) = 0
                     \/ ~ Has(rs, quote)
BY DEF CrossRate, Has, EurRate, NoRate

(* MISSING is the verdict of a record without a reference, and no other.   *)
LEMMA ClassifyVerdicts ==
    ASSUME NEW stored, NEW online
    PROVE  /\ Classify(stored, online) \in Verdicts
           /\ Classify(stored, online) = "MISSING" <=> online = NoRate
           /\ Classify(stored, online) = "OK" =>
                 online.n = 0 \/ Within(stored, online, 1000)
BY DEF Classify, Verdicts, NoRate

(* A day's rates are those of its items, so they are natural numbers.      *)
LEMMA SummaryRates ==
    ASSUME NEW day, NEW rs, NEW items \in SUBSET Items,
           Summarises(day, rs, items)
    PROVE  /\ \A c \in DOMAIN rs : rs[c] \in Nat
           /\ day \in {NoDay} \cup Nat
           /\ day = NoDay <=> items = {}
BY DEF Summarises, Items, NoDay

(* Reading one more item keeps the summary (the loop of snapshotForDate).  *)
LEMMA TakeSummarises ==
    ASSUME NEW items \in SUBSET Items, NEW i \in Items,
           Summarises(latest, rates, items), Take(i)
    PROVE  Summarises(latest', rates', items \cup {i})
<1> DEFINE more == items \cup {i}
<1>1. /\ i.date \in Nat /\ \A j \in items : j.date \in Nat
      /\ latest \in {NoDay} \cup Nat
  BY SummaryRates DEF Items
<1>2. \A j \in items : j.date <= latest
  BY DEF Summarises
<1>3. more # {} /\ i \in more
  OBVIOUS
<1>4. CASE i.date > latest
  <2>1. latest' = i.date /\ rates' = With(<<>>, i.quote, i.rate)
    BY <1>1, <1>4 DEF Take, NoDay
  <2>2. DOMAIN rates' = {i.quote} /\ rates'[i.quote] = i.rate
    BY <2>1 DEF With
  <2>3. \A j \in items : j.date < i.date
    BY <1>1, <1>4 DEF Summarises, NoDay
  <2>4. {j \in more : j.date = latest'} = {i}
    BY <2>1, <2>3, <1>1
  <2>5. DOMAIN rates' = {j.quote : j \in {k \in more : k.date = latest'}}
    BY <2>2, <2>4
  <2>6. \A j \in more : j.date <= latest'
    BY <2>1, <2>3, <1>1
  <2> QED  BY <2>1, <2>2, <2>5, <2>6, <1>3 DEF Summarises
<1>5. CASE i.date = latest
  <2>1. latest' = latest /\ rates' = With(rates, i.quote, i.rate)
    BY <1>1, <1>5 DEF Take
  <2>2. /\ DOMAIN rates' = DOMAIN rates \cup {i.quote}
        /\ rates'[i.quote] = i.rate
        /\ \A c \in DOMAIN rates \ {i.quote} : rates'[c] = rates[c]
    BY <2>1 DEF With
  <2>3. {k \in more : k.date = latest'} = {k \in items : k.date = latest} \cup {i}
    BY <2>1, <1>5
  <2>4. DOMAIN rates' = {j.quote : j \in {k \in more : k.date = latest'}}
    BY <2>2, <2>3 DEF Summarises
  <2>5. \A c \in DOMAIN rates' :
           \E j \in more : j.date = latest' /\ j.quote = c /\ j.rate = rates'[c]
    BY <2>1, <2>2, <1>5 DEF Summarises
  <2>6. \A j \in more : j.date <= latest'
    BY <2>1, <1>1, <1>5 DEF Summarises
  <2>7. i.date = latest'
    BY <2>1, <1>5
  <2> QED  BY <2>4, <2>5, <2>6, <2>7, <1>3 DEF Summarises
<1>6. CASE i.date < latest
  <2>1. latest' = latest /\ rates' = rates
    BY <1>1, <1>6 DEF Take, NoDay
  <2>2. {j \in more : j.date = latest'} = {j \in items : j.date = latest}
    BY <2>1, <1>1, <1>6 DEF NoDay
  <2>3. DOMAIN rates' = {j.quote : j \in {k \in more : k.date = latest'}}
    BY <2>1, <2>2 DEF Summarises
  <2>4. \E j \in items : j.date = latest
    BY <1>1, <1>6 DEF Summarises, NoDay
  <2>5. \A j \in more : j.date <= latest'
    BY <2>1, <1>1, <1>6, <1>2 DEF NoDay
  <2>6. \A c \in DOMAIN rates' :
           \E j \in more : j.date = latest' /\ j.quote = c /\ j.rate = rates'[c]
    BY <2>1 DEF Summarises
  <2> QED  BY <2>1, <2>3, <2>4, <2>5, <2>6, <1>3 DEF Summarises
<1> QED  BY <1>1, <1>4, <1>5, <1>6 DEF NoDay

(* What a record's look-up returns, once its day is in the cache.          *)
LEMMA ResultTyped ==
    ASSUME CacheOK, NEW r \in StoredRates,
           r.base # r.quote => r.date \in DOMAIN cache
    PROVE  Result(r) \in Lines
<1>1. LookupRate(r) \in [n : Nat, d : Nat]
  <2>1. CASE r.base = r.quote \/ cache[r.date].day = NoDay
    BY <2>1 DEF LookupRate, Whole, NoRate
  <2>2. CASE ~ (r.base = r.quote \/ cache[r.date].day = NoDay)
    <3>1. LookupRate(r) = CrossRate(cache[r.date].rates, r.base, r.quote)
      BY <2>2 DEF LookupRate
    <3>2. /\ answers[r.date] \in SUBSET Items
          /\ Summarises(cache[r.date].day, cache[r.date].rates,
                        WantedOf(answers[r.date], r.date))
      BY <2>2 DEF CacheOK
    <3>3. WantedOf(answers[r.date], r.date) \in SUBSET Items
      BY <3>2 DEF WantedOf
    <3>4. \A c \in DOMAIN cache[r.date].rates : cache[r.date].rates[c] \in Nat
      BY <3>2, <3>3, SummaryRates
    <3> QED  BY <3>1, <3>4, CrossRateIsRatio
  <2> QED  BY <2>1, <2>2
<1>2. Classify(r.rate, LookupRate(r)) \in Verdicts
  BY ClassifyVerdicts
<1> QED  BY <1>1, <1>2 DEF Result, Lines, StoredRates

-----------------------------------------------------------------------------
(* The invariant.                                                          *)

(* A line stays what its record would be given while its day stays cached. *)
LEMMA LinesStay ==
    ASSUME LinesOK, UNCHANGED <<lines, selected>>,
           \A d \in DOMAIN cache : d \in DOMAIN cache' /\ cache'[d] = cache[d]
    PROVE  LinesOK'
<1> SUFFICES ASSUME NEW k \in DOMAIN lines
             PROVE  /\ lines[k] = Result(selected[k])'
                    /\ selected[k].base # selected[k].quote
                          => selected[k].date \in DOMAIN cache'
  BY DEF LinesOK
<1>1. /\ lines[k] = Result(selected[k])
      /\ selected[k].base # selected[k].quote
            => selected[k].date \in DOMAIN cache
  BY DEF LinesOK
<1>2. LookupRate(selected[k])' = LookupRate(selected[k])
  BY <1>1 DEF LookupRate
<1>3. Result(selected[k])' = Result(selected[k])
  BY <1>2 DEF Result
<1> QED  BY <1>1, <1>3

LEMMA InitInvariant == Init => IInv
<1> SUFFICES ASSUME Init PROVE IInv
  OBVIOUS
<1>1. TypeOK
  BY DEF Init, TypeOK
<1>2. Sequenced /\ CacheOK /\ LinesOK
  BY DEF Init, Sequenced, CacheOK, LinesOK
<1>3. ReadingOK /\ JudgingOK /\ SelectedOK /\ ReportOK
  BY DEF Init, ReadingOK, JudgingOK, SelectedOK, ReportOK, NoDay
<1> QED  BY <1>1, <1>2, <1>3 DEF IInv

(* The steps that neither read an answer nor give a verdict.               *)
LEMMA PublishKeeps == IInv /\ (Publish \/ UNCHANGED vars) => IInv'
<1> SUFFICES ASSUME IInv, Publish \/ UNCHANGED vars PROVE IInv'
  OBVIOUS
<1>1. /\ UNCHANGED <<flags, selected, pc, cache, answer, latest, rates, lines,
                     report, exit, answers>>
      /\ published' \in References
  BY DEF Publish, vars, readVars, IInv, TypeOK
<1>2. TypeOK'
  BY <1>1 DEF IInv, TypeOK
<1>3. LinesOK'
  BY <1>1, LinesStay DEF IInv
<1>4. Sequenced' /\ CacheOK'
  BY <1>1 DEF IInv, Sequenced, CacheOK
<1>5. ReadingOK' /\ JudgingOK'
  BY <1>1 DEF IInv, ReadingOK, JudgingOK, Record
<1>6. SelectedOK' /\ ReportOK'
  BY <1>1 DEF IInv, SelectedOK, ReportOK
<1> QED  BY <1>2, <1>3, <1>4, <1>5, <1>6 DEF IInv

LEMMA FailureKeeps ==
    IInv /\ (CannotSelect \/ LookupFails \/ CannotOpen) => IInv'
<1> SUFFICES ASSUME IInv, CannotSelect \/ LookupFails \/ CannotOpen PROVE IInv'
  OBVIOUS
<1>1. /\ UNCHANGED <<flags, published, selected, cache, answer, latest, rates,
                     lines, report, answers>>
      /\ pc' = "over" /\ exit' = 1
      /\ pc \in {"start", "next"}
  BY DEF CannotSelect, LookupFails, CannotOpen, Exit, readVars, Asks, HasNext,
         Validated
<1>2. TypeOK'
  BY <1>1 DEF IInv, TypeOK, NoDay
<1>3. LinesOK'
  BY <1>1, LinesStay DEF IInv
<1>4. Sequenced' /\ CacheOK'
  BY <1>1 DEF IInv, Sequenced, CacheOK
<1>5. ReadingOK' /\ JudgingOK' /\ SelectedOK' /\ ReportOK'
  BY <1>1 DEF IInv, ReadingOK, JudgingOK, SelectedOK, ReportOK
<1> QED  BY <1>2, <1>3, <1>4, <1>5 DEF IInv

LEMMA FetchKeeps == IInv /\ FetchRecords => IInv'
<1> SUFFICES ASSUME IInv, FetchRecords PROVE IInv'
  OBVIOUS
<1>1. PICK table \in Tables :
         \E pick \in Picks(flags, table, Int32(flags.limit)) :
             selected' = RowsAt(table, pick)
  BY DEF FetchRecords
<1>2. PICK pick \in Picks(flags, table, Int32(flags.limit)) :
         selected' = RowsAt(table, pick)
  BY <1>1
<1>3. selected' \in Seq(StoredRates)
  BY <1>2, RowsAtPicks
<1>4. /\ UNCHANGED <<flags, published, cache, answer, latest, rates, lines,
                     report, answers>>
      /\ pc = "start" /\ lines = <<>> /\ report = Earlier
      /\ \/ selected' = <<>> /\ pc' = "over" /\ exit' = 0
         \/ selected' # <<>> /\ pc' = "next" /\ exit' = exit
  BY DEF FetchRecords, Exit, readVars, IInv, ReportOK
<1>5. exit = NoDay
  BY <1>4 DEF IInv, TypeOK
<1>6. TypeOK'
  BY <1>3, <1>4, <1>5 DEF IInv, TypeOK, NoDay
<1>7. Sequenced' /\ CacheOK' /\ LinesOK'
  BY <1>3, <1>4 DEF IInv, Sequenced, CacheOK, LinesOK
<1>8. ReadingOK' /\ JudgingOK' /\ SelectedOK'
  BY <1>2, <1>4 DEF ReadingOK, JudgingOK, SelectedOK
<1>9. ReportOK'
  BY <1>4, <1>5 DEF ReportOK, NoDay
<1> QED  BY <1>6, <1>7, <1>8, <1>9 DEF IInv

LEMMA KnownKeeps == IInv /\ Known => IInv'
<1> SUFFICES ASSUME IInv, Known PROVE IInv'
  OBVIOUS
<1>1. /\ UNCHANGED <<flags, published, selected, cache, answer, latest, rates,
                     lines, report, exit, answers>>
      /\ pc = "next" /\ pc' = "judge" /\ Len(lines) < Len(selected)
      /\ Record.base # Record.quote => Record.date \in DOMAIN cache
  BY DEF Known, HasNext, readVars
<1>2. TypeOK'
  BY <1>1 DEF IInv, TypeOK
<1>3. LinesOK'
  BY <1>1, LinesStay DEF IInv
<1>4. Sequenced' /\ CacheOK'
  BY <1>1 DEF IInv, Sequenced, CacheOK
<1>5. ReadingOK' /\ JudgingOK'
  BY <1>1 DEF ReadingOK, JudgingOK, Record
<1>6. SelectedOK' /\ ReportOK'
  BY <1>1 DEF IInv, SelectedOK, ReportOK, TypeOK
<1> QED  BY <1>2, <1>3, <1>4, <1>5, <1>6 DEF IInv

(* The record at hand is a stored rate.                                    *)
LEMMA RecordStored ==
    ASSUME Sequenced, Len(lines) < Len(selected)
    PROVE  /\ Record \in StoredRates /\ Record.date \in Nat
           /\ Len(lines) + 1 \in DOMAIN selected
<1>1. Len(lines) + 1 \in 1..Len(selected)
  BY DEF Sequenced
<1>2. selected[Len(lines) + 1] \in StoredRates /\ Len(lines) + 1 \in DOMAIN selected
  BY <1>1 DEF Sequenced
<1> QED  BY <1>2 DEF Record, StoredRates

LEMMA AnsweredKeeps == IInv /\ Answered => IInv'
<1> SUFFICES ASSUME IInv, Answered PROVE IInv'
  OBVIOUS
<1>1. /\ UNCHANGED <<flags, published, selected, cache, lines, report, exit>>
      /\ pc = "next" /\ pc' = "items" /\ Len(lines) < Len(selected)
      /\ Record.base # Record.quote /\ Record.date \notin DOMAIN cache
      /\ latest' = NoDay /\ rates' = <<>>
      /\ answers' = With(answers, Record.date, answer')
  BY DEF Answered, Asks, HasNext
<1>2. /\ answer' \subseteq published
      /\ answer' \in SUBSET Items
      /\ answer' \subseteq UNION References
  <2>1. answer' \subseteq published
    BY DEF Answered, Window
  <2> QED  BY <2>1, DataAssumption DEF IInv, TypeOK
<1>3. Record' = Record
  BY <1>1 DEF Record
<1>4. TypeOK'
  BY <1>1, <1>2 DEF IInv, TypeOK
<1>5. LinesOK'
  BY <1>1, LinesStay DEF IInv
<1>6. Sequenced'
  BY <1>1 DEF IInv, Sequenced
<1>7. /\ DOMAIN answers' = DOMAIN answers \cup {Record.date}
      /\ answers'[Record.date] = answer'
      /\ \A d \in DOMAIN answers \ {Record.date} : answers'[d] = answers[d]
  BY <1>1 DEF With
<1>8. CacheOK'
  <2> SUFFICES ASSUME NEW d \in DOMAIN cache
               PROVE  /\ d \in Nat /\ d \in DOMAIN answers'
                      /\ answers'[d] \in SUBSET Items
                      /\ Summarises(cache[d].day, cache[d].rates,
                                    WantedOf(answers'[d], d))
    BY <1>1 DEF CacheOK
  <2>1. d # Record.date
    BY <1>1
  <2> QED  BY <2>1, <1>7 DEF IInv, CacheOK
<1>9. ReadingOK'
  <2>1. WantedOf(answer' \ answer', Record.date) = {}
    BY DEF WantedOf
  <2>2. Summarises(NoDay, <<>>, {})
    BY DEF Summarises
  <2>3. Summarises(latest', rates', WantedOf(answers'[Record.date] \ answer', Record.date))
    BY <2>1, <2>2, <1>1, <1>7
  <2> QED  BY <2>3, <1>1, <1>2, <1>3, <1>7 DEF ReadingOK
<1>10. JudgingOK' /\ SelectedOK' /\ ReportOK'
  BY <1>1 DEF IInv, JudgingOK, SelectedOK, ReportOK, TypeOK
<1> QED  BY <1>4, <1>5, <1>6, <1>8, <1>9, <1>10 DEF IInv

LEMMA ReadItemKeeps == IInv /\ ReadItem => IInv'
<1> SUFFICES ASSUME IInv, ReadItem PROVE IInv'
  OBVIOUS
<1> DEFINE day == Record.date
           whole == answers[Record.date]
<1>1. /\ UNCHANGED <<flags, published, selected, pc, cache, lines, report,
                     exit, answers>>
      /\ pc = "items"
  BY DEF ReadItem
<1>2. PICK i \in answer :
         /\ answer' = answer \ {i}
         /\ IF Wanted(i) THEN Take(i) ELSE UNCHANGED <<latest, rates>>
  BY DEF ReadItem
<1>3. /\ whole \in SUBSET Items /\ answer \subseteq whole /\ i \in Items
      /\ Summarises(latest, rates, WantedOf(whole \ answer, day))
      /\ day \in Nat /\ Record' = Record
  <2>1. Len(lines) < Len(selected)
    BY <1>1 DEF IInv, ReadingOK
  <2> QED  BY <1>1, <1>2, <2>1, RecordStored DEF IInv, ReadingOK, Record
<1>4. Summarises(latest', rates', WantedOf(whole \ answer', day))
  <2>1. whole \ answer' = (whole \ answer) \cup {i}
    BY <1>2, <1>3
  <2>2. CASE Wanted(i)
    <3>1. WantedOf(whole \ answer', day) = WantedOf(whole \ answer, day) \cup {i}
      BY <2>1, <2>2 DEF WantedOf, Wanted
    <3>2. WantedOf(whole \ answer, day) \in SUBSET Items
      BY <1>3 DEF WantedOf
    <3> QED  BY <3>1, <3>2, <2>2, <1>2, <1>3, TakeSummarises
  <2>3. CASE ~ Wanted(i)
    <3>1. WantedOf(whole \ answer', day) = WantedOf(whole \ answer, day)
      BY <2>1, <2>3 DEF WantedOf, Wanted
    <3> QED  BY <3>1, <2>3, <1>2, <1>3
  <2> QED  BY <2>2, <2>3
<1>5. latest' \in {latest, i.date}
  BY <1>2 DEF Take
<1>6. TypeOK'
  <2>1. /\ latest' \in {j.date : j \in UNION References} \cup {NoDay}
        /\ answer' \subseteq UNION References
    BY <1>2, <1>5 DEF IInv, TypeOK
  <2> QED  BY <2>1, <1>1 DEF IInv, TypeOK
<1>7. LinesOK'
  BY <1>1, LinesStay DEF IInv
<1>8. Sequenced' /\ CacheOK'
  BY <1>1 DEF IInv, Sequenced, CacheOK
<1>9. ReadingOK'
  <2> HIDE DEF day
  <2>1. answer' \subseteq whole
    BY <1>2, <1>3
  <2> QED  BY <2>1, <1>1, <1>3, <1>4 DEF IInv, ReadingOK, day
<1>10. JudgingOK' /\ SelectedOK' /\ ReportOK'
  BY <1>1 DEF IInv, JudgingOK, SelectedOK, ReportOK
<1> QED  BY <1>6, <1>7, <1>8, <1>9, <1>10 DEF IInv

LEMMA EndOfAnswerKeeps == IInv /\ EndOfAnswer => IInv'
<1> SUFFICES ASSUME IInv, EndOfAnswer PROVE IInv'
  OBVIOUS
<1>1. /\ UNCHANGED <<flags, published, selected, answer, latest, rates, lines,
                     report, exit, answers>>
      /\ pc = "items" /\ pc' = "judge" /\ answer = {}
      /\ cache' = With(cache, Record.date, [day |-> latest, rates |-> rates])
  BY DEF EndOfAnswer, readVars
<1>2. /\ Len(lines) < Len(selected) /\ Record.date \notin DOMAIN cache
      /\ Record.date \in DOMAIN answers
      /\ answers[Record.date] \in SUBSET Items
      /\ Summarises(latest, rates, WantedOf(answers[Record.date], Record.date))
  <2>1. answers[Record.date] \ answer = answers[Record.date]
    BY <1>1
  <2> QED  BY <2>1, <1>1 DEF IInv, ReadingOK
<1>3. Record.date \in Nat /\ Record' = Record
  BY <1>1, <1>2, RecordStored DEF IInv, Record
<1>4. /\ DOMAIN cache' = DOMAIN cache \cup {Record.date}
      /\ cache'[Record.date] = [day |-> latest, rates |-> rates]
      /\ \A d \in DOMAIN cache : cache'[d] = cache[d]
  BY <1>1, <1>2 DEF With
<1>5. latest \in {NoDay} \cup 0..Record.date
  <2>1. WantedOf(answers[Record.date], Record.date) \in SUBSET Items
    BY <1>2 DEF WantedOf
  <2>2. \A i \in WantedOf(answers[Record.date], Record.date) :
           i.date \in 0..Record.date
    BY <1>3, <2>1 DEF WantedOf, Items
  <2> QED  BY <1>2, <2>2 DEF Summarises
<1>6. TypeOK'
  <2>1. \A d \in DOMAIN cache' : cache'[d].day \in {NoDay} \cup 0..d
    BY <1>4, <1>5 DEF IInv, TypeOK
  <2> QED  BY <2>1, <1>1 DEF IInv, TypeOK
<1>7. LinesOK'
  BY <1>1, <1>4, LinesStay DEF IInv
<1>8. Sequenced'
  BY <1>1 DEF IInv, Sequenced
<1>9. CacheOK'
  <2> SUFFICES ASSUME NEW d \in DOMAIN cache'
               PROVE  /\ d \in Nat /\ d \in DOMAIN answers
                      /\ answers[d] \in SUBSET Items
                      /\ Summarises(cache'[d].day, cache'[d].rates,
                                    WantedOf(answers[d], d))
    BY <1>1 DEF CacheOK
  <2>1. CASE d = Record.date
    BY <2>1, <1>2, <1>3, <1>4
  <2>2. CASE d \in DOMAIN cache
    BY <2>2, <1>4 DEF IInv, CacheOK
  <2> QED  BY <2>1, <2>2, <1>4
<1>10. ReadingOK' /\ JudgingOK'
  BY <1>1, <1>2, <1>3, <1>4 DEF ReadingOK, JudgingOK
<1>11. SelectedOK' /\ ReportOK'
  BY <1>1 DEF IInv, SelectedOK, ReportOK, TypeOK
<1> QED  BY <1>6, <1>7, <1>8, <1>9, <1>10, <1>11 DEF IInv

LEMMA ValidateOneKeeps == IInv /\ ValidateOne => IInv'
<1> SUFFICES ASSUME IInv, ValidateOne PROVE IInv'
  OBVIOUS
<1>1. /\ UNCHANGED <<flags, published, selected, cache, answer, latest, rates,
                     report, exit, answers>>
      /\ pc = "judge" /\ pc' = "next" /\ lines' = Append(lines, Result(Record))
  BY DEF ValidateOne, readVars
<1>2. /\ Len(lines) < Len(selected)
      /\ Record.base # Record.quote => Record.date \in DOMAIN cache
  BY <1>1 DEF IInv, JudgingOK
<1>3. Record \in StoredRates
  BY <1>2, RecordStored DEF IInv
<1>4. Result(Record) \in Lines
  BY <1>2, <1>3, ResultTyped DEF IInv
<1>5. /\ lines' \in Seq(Lines) /\ Len(lines') = Len(lines) + 1
      /\ DOMAIN lines' = DOMAIN lines \cup {Len(lines) + 1}
      /\ lines'[Len(lines) + 1] = Result(Record)
      /\ \A k \in DOMAIN lines : lines'[k] = lines[k]
  BY <1>1, <1>4 DEF IInv, Sequenced
<1>6. TypeOK' /\ Sequenced'
  BY <1>1, <1>2, <1>5 DEF IInv, TypeOK, Sequenced
<1>7. CacheOK'
  BY <1>1 DEF IInv, CacheOK
<1>8. LinesOK'
  <2> SUFFICES ASSUME NEW k \in DOMAIN lines'
               PROVE  /\ lines'[k] = Result(selected[k])'
                      /\ selected[k].base # selected[k].quote
                            => selected[k].date \in DOMAIN cache
    BY <1>1 DEF LinesOK
  <2>1. Result(selected[k])' = Result(selected[k])
    BY <1>1 DEF Result, LookupRate
  <2>2. CASE k \in DOMAIN lines
    BY <2>1, <2>2, <1>5 DEF IInv, LinesOK
  <2>3. CASE k = Len(lines) + 1
    BY <2>1, <2>3, <1>2, <1>5 DEF Record
  <2> QED  BY <2>2, <2>3, <1>5
<1>9. ReadingOK' /\ JudgingOK'
  BY <1>1 DEF ReadingOK, JudgingOK
<1>10. exit = NoDay
  BY <1>1 DEF IInv, TypeOK
<1>11. SelectedOK' /\ ReportOK'
  BY <1>1, <1>10 DEF IInv, SelectedOK, ReportOK, NoDay
<1> QED  BY <1>6, <1>7, <1>8, <1>9, <1>11 DEF IInv

(* The steps that write the report.                                        *)
LEMMA WritingKeeps ==
    IInv /\ (OutputWriter \/ WriteCSV \/ WriteFails) => IInv'
<1> SUFFICES ASSUME IInv, OutputWriter \/ WriteCSV \/ WriteFails PROVE IInv'
  OBVIOUS
<1>1. /\ UNCHANGED <<flags, published, selected, cache, answer, latest, rates,
                     lines, answers>>
      /\ pc \in {"next", "write"} /\ Len(lines) = Len(selected)
      /\ selected # <<>>
      /\ \/ /\ pc' = "write" /\ exit' = exit /\ pc = "next"
            /\ report' = [fresh |-> TRUE, lines |-> <<>>]
         \/ /\ pc' = "over" /\ exit' = 0
            /\ report' = [fresh |-> TRUE, lines |-> lines]
         \/ pc' = "over" /\ exit' = 1
  BY DEF OutputWriter, WriteCSV, WriteFails, Validated, Exit, readVars, IInv,
         ReportOK
<1>2. TypeOK'
  BY <1>1 DEF IInv, TypeOK, NoDay
<1>3. LinesOK'
  BY <1>1, LinesStay DEF IInv
<1>4. Sequenced' /\ CacheOK'
  BY <1>1 DEF IInv, Sequenced, CacheOK
<1>5. exit = NoDay
  BY <1>1 DEF IInv, TypeOK
<1>6. ReadingOK' /\ JudgingOK'
  BY <1>1 DEF ReadingOK, JudgingOK
<1>7. SelectedOK'
  <2>1. SelectedOK /\ exit # 1 /\ pc # "start"
    BY <1>1, <1>5 DEF IInv, NoDay
  <2> QED  BY <2>1, <1>1 DEF SelectedOK
<1>8. ReportOK'
  <2>1. CASE exit' = exit
    BY <2>1, <1>1, <1>5 DEF ReportOK, NoDay
  <2>2. CASE exit' = 0
    BY <2>2, <1>1, <1>5 DEF ReportOK, NoDay
  <2>3. CASE exit' = 1
    BY <2>3, <1>1, <1>5 DEF ReportOK, NoDay
  <2> QED  BY <2>1, <2>2, <2>3, <1>1
<1> QED  BY <1>2, <1>3, <1>4, <1>6, <1>7, <1>8 DEF IInv

LEMMA NextInvariant == IInv /\ [Next]_vars => IInv'
<1>1. IInv /\ Over => IInv'
  BY PublishKeeps DEF Over
<1> QED  BY <1>1, PublishKeeps, FailureKeeps, FetchKeeps, KnownKeeps,
            AnsweredKeeps, ReadItemKeeps, EndOfAnswerKeeps, ValidateOneKeeps,
            WritingKeeps DEF Next

LEMMA Invariant == Spec => []IInv
BY InitInvariant, NextInvariant, PTL DEF Spec

-----------------------------------------------------------------------------
(* What the invariant says of the verdicts.                                *)

(* The day of a snapshot is the last one of its answer.                    *)
LEMMA ReferenceDayCached ==
    ASSUME CacheOK, NEW d \in DOMAIN cache
    PROVE  ReferenceDay(d) = cache[d].day
<1> DEFINE wanted == WantedOf(answers[d], d)
           days   == {i.date : i \in wanted}
           day    == cache[d].day
<1>1. /\ Summarises(day, cache[d].rates, wanted)
      /\ wanted \in SUBSET Items
  BY DEF CacheOK, WantedOf
<1>2. ReferenceDay(d)
         = IF days = {} THEN NoDay
           ELSE CHOOSE m \in days : \A n \in days : n <= m
  BY DEF ReferenceDay, WantedOf
<1>3. CASE wanted = {}
  BY <1>1, <1>2, <1>3 DEF Summarises
<1>4. CASE wanted # {}
  <2>1. days # {} /\ day \in days /\ days \subseteq Nat
    BY <1>1, <1>4 DEF Summarises, Items
  <2>2. \A n \in days : n <= day
    BY <1>1 DEF Summarises
  <2>3. \A m \in days : (\A n \in days : n <= m) => m = day
    BY <2>1, <2>2
  <2> HIDE DEF days, day
  <2>4. (CHOOSE m \in days : \A n \in days : n <= m) = day
    BY <2>1, <2>2, <2>3
  <2> QED  BY <2>1, <2>4, <1>2 DEF day
<1> QED  BY <1>3, <1>4

(* A snapshot has the rates that its answer lists on the last day.         *)
LEMMA ListedCached ==
    ASSUME CacheOK, NEW d \in DOMAIN cache, NEW c
    PROVE  /\ Has(cache[d].rates, c) => EurRate(cache[d].rates, c) \in Listed(d, c)
           /\ ~ Has(cache[d].rates, c) => Listed(d, c) = {}
           /\ cache[d].day = NoDay /\ c # Eur => Listed(d, c) = {}
<1>1. CASE c = Eur
  BY <1>1 DEF Has, EurRate, Listed
<1>2. CASE c # Eur
  <2> DEFINE wanted == WantedOf(answers[d], d)
             day    == cache[d].day
             rs     == cache[d].rates
  <2>1. /\ Summarises(day, rs, wanted)
        /\ answers[d] \in SUBSET Items /\ wanted \in SUBSET Items /\ d \in Nat
        /\ day \in {NoDay} \cup Nat
        /\ day = NoDay <=> wanted = {}
    <3>1. /\ Summarises(day, rs, wanted)
          /\ answers[d] \in SUBSET Items /\ wanted \in SUBSET Items /\ d \in Nat
      BY DEF CacheOK, WantedOf
    <3> QED  BY <3>1, SummaryRates
  <2>2. {j \in answers[d] : j.base = Eur /\ j.quote = c /\ j.date = day}
           = {j \in wanted : j.quote = c /\ j.date = day}
    <3>1. day = NoDay \/ day <= d
      BY <2>1 DEF Summarises, WantedOf
    <3>2. \A j \in answers[d] : j.date \in Nat
      BY <2>1 DEF Items
    <3> QED  BY <3>1, <3>2 DEF WantedOf, NoDay
  <2>3. Listed(d, c) = {i.rate : i \in {j \in wanted : j.quote = c /\ j.date = day}}
    BY <1>2, <2>2, ReferenceDayCached DEF Listed
  <2>4. c \in DOMAIN rs <=> \E j \in wanted : j.quote = c /\ j.date = day
    BY <2>1 DEF Summarises
  <2>5. c \in DOMAIN rs =>
           \E j \in wanted : j.date = day /\ j.quote = c /\ j.rate = rs[c]
    BY <2>1 DEF Summarises
  <2> HIDE DEF wanted, day, rs
  <2> QED  BY <1>2, <2>1, <2>3, <2>4, <2>5 DEF Has, EurRate, rs, day
<1> QED  BY <1>1, <1>2

(* What a line of two currencies says, from the snapshot of its day.       *)
LEMMA LineFromSnapshot ==
    ASSUME Sequenced, CacheOK, LinesOK, NEW k \in DOMAIN lines,
           lines[k].base # lines[k].quote
    PROVE  LET l == lines[k]
               rs == cache[l.date].rates
           IN  /\ l.date \in DOMAIN cache
               /\ \A c \in DOMAIN rs : rs[c] \in Nat
               /\ l.status = Classify(selected[k].rate, l.online)
               /\ \/ cache[l.date].day = NoDay /\ l.online = NoRate
                  \/ l.online = CrossRate(rs, l.base, l.quote)
<1> DEFINE r == selected[k]
           rs == cache[r.date].rates
<1>1. lines[k] = Result(r)
  BY DEF LinesOK
<1>2. /\ lines[k].date = r.date /\ lines[k].base = r.base
      /\ lines[k].quote = r.quote /\ lines[k].online = LookupRate(r)
      /\ lines[k].status = Classify(r.rate, LookupRate(r))
  BY <1>1 DEF Result
<1>3. r.date \in DOMAIN cache
  BY <1>2 DEF LinesOK
<1>4. \A c \in DOMAIN rs : rs[c] \in Nat
  <2>1. WantedOf(answers[r.date], r.date) \in SUBSET Items
    BY <1>3 DEF CacheOK, WantedOf
  <2> QED  BY <2>1, <1>3, SummaryRates DEF CacheOK
<1>5. \/ cache[r.date].day = NoDay /\ LookupRate(r) = NoRate
      \/ LookupRate(r) = CrossRate(rs, r.base, r.quote)
  BY <1>2 DEF LookupRate
<1> QED  BY <1>2, <1>3, <1>4, <1>5

LEMMA OneDay == IInv => VerdictFromOneDay
<1> SUFFICES ASSUME IInv, NEW k \in DOMAIN lines, lines[k].base # lines[k].quote
             PROVE  LET l == lines[k]
                        stored == selected[k].rate
                    IN  IF l.status = "MISSING"
                        THEN \/ Listed(l.date, l.base) = {}
                             \/ Listed(l.date, l.quote) = {}
                             \/ 0 \in Listed(l.date, l.base)
                        ELSE \E b \in Listed(l.date, l.base) \ {0},
                                q \in Listed(l.date, l.quote) :
                                /\ l.online.n * b = q * l.online.d
                                /\ l.status = "OK" /\ q > 0 =>
                                      1000 * AbsDiff(stored.n * b, q * stored.d)
                                         <= q * stored.d
  BY DEF VerdictFromOneDay
<1> DEFINE l == lines[k]
           rs == cache[l.date].rates
           stored == selected[k].rate
           b == EurRate(rs, l.base)
           q == EurRate(rs, l.quote)
<1>1. /\ l.date \in DOMAIN cache
      /\ \A c \in DOMAIN rs : rs[c] \in Nat
      /\ l.status = Classify(stored, l.online)
      /\ \/ cache[l.date].day = NoDay /\ l.online = NoRate
         \/ l.online = CrossRate(rs, l.base, l.quote)
  BY LineFromSnapshot DEF IInv
<1>2. l.status = "MISSING" <=> l.online = NoRate
  BY <1>1, ClassifyVerdicts
<1>3. \A c : /\ Has(rs, c) => EurRate(rs, c) \in Listed(l.date, c)
             /\ ~ Has(rs, c) => Listed(l.date, c) = {}
             /\ cache[l.date].day = NoDay /\ c # Eur => Listed(l.date, c) = {}
  BY <1>1, ListedCached DEF IInv
<1>4. CASE cache[l.date].day = NoDay /\ l.online = NoRate
  <2>1. l.base # Eur \/ l.quote # Eur
    OBVIOUS
  <2> QED  BY <2>1, <1>2, <1>3, <1>4
<1>5. CASE l.online = CrossRate(rs, l.base, l.quote) /\ l.online = NoRate
  <2>1. ~ Has(rs, l.base) \/ b = 0 \/ ~ Has(rs, l.quote)
    BY <1>1, <1>5, CrossRateIsRatio
  <2> QED  BY <2>1, <1>2, <1>3, <1>5
<1>6. CASE l.online = CrossRate(rs, l.base, l.quote) /\ l.online # NoRate
  <2>1. Has(rs, l.base) /\ b # 0 /\ Has(rs, l.quote)
    BY <1>1, <1>6, CrossRateIsRatio
  <2>2. l.online = [n |-> q, d |-> b] /\ b \in Nat /\ q \in Nat
    BY <2>1, <1>1, <1>6 DEF CrossRate, EurRate, Has
  <2>3. b \in Listed(l.date, l.base) \ {0} /\ q \in Listed(l.date, l.quote)
    BY <2>1, <1>3
  <2>4. l.status = "OK" /\ q > 0 => Within(stored, l.online, 1000)
    BY <1>1, <2>2, ClassifyVerdicts
  <2>5. l.status = "OK" /\ q > 0 =>
           1000 * AbsDiff(stored.n * b, q * stored.d) <= q * stored.d
    BY <2>2, <2>4 DEF Within
  <2>6. l.online.n * b = q * l.online.d
    BY <2>2
  <2>7. l.status # "MISSING"
    BY <1>2, <1>6
  <2> HIDE DEF b, q, l, stored
  <2> QED  BY <2>3, <2>5, <2>6, <2>7 DEF l, stored
<1> QED  BY <1>1, <1>4, <1>5, <1>6

(* A reference is a ratio of EUR rates that depend on the day alone.       *)
LEMMA LineRatio ==
    ASSUME Sequenced, CacheOK, LinesOK, NEW k \in DOMAIN lines,
           lines[k].online # NoRate
    PROVE  LET l == lines[k]
               rs == cache[l.date].rates
           IN  \/ l.base = l.quote /\ l.online = [n |-> 1, d |-> 1]
               \/ /\ l.base # l.quote
                  /\ EurRate(rs, l.base) \in Nat /\ EurRate(rs, l.quote) \in Nat
                  /\ l.online = [n |-> EurRate(rs, l.quote),
                                 d |-> EurRate(rs, l.base)]
<1> DEFINE l == lines[k]
           rs == cache[l.date].rates
<1>1. CASE l.base = l.quote
  <2>1. lines[k] = Result(selected[k])
    BY DEF LinesOK
  <2>2. l.online = LookupRate(selected[k]) /\ selected[k].base = selected[k].quote
    BY <2>1, <1>1 DEF Result
  <2> QED  BY <2>2, <1>1 DEF LookupRate, Whole
<1>2. CASE l.base # l.quote
  <2>1. /\ \A c \in DOMAIN rs : rs[c] \in Nat
        /\ l.online = CrossRate(rs, l.base, l.quote)
    BY <1>2, LineFromSnapshot
  <2>2. Has(rs, l.base) /\ Has(rs, l.quote)
    BY <2>1, CrossRateIsRatio
  <2>3. EurRate(rs, l.base) \in Nat /\ EurRate(rs, l.quote) \in Nat
    BY <2>1, <2>2 DEF Has, EurRate
  <2>4. l.online = [n |-> EurRate(rs, l.quote), d |-> EurRate(rs, l.base)]
    BY <2>1 DEF CrossRate
  <2> QED  BY <2>3, <2>4, <1>2
<1> QED  BY <1>1, <1>2

LEMMA ProductCommutes ==
    ASSUME NEW a \in Nat, NEW b \in Nat, NEW c \in Nat
    PROVE  b * c * a = a * b * c
OBVIOUS

LEMMA Agreement == IInv => ReferencesAgree
<1> SUFFICES ASSUME IInv, NEW i \in DOMAIN lines, NEW j \in DOMAIN lines,
                    NEW k \in DOMAIN lines,
                    lines[i].date = lines[j].date, lines[j].date = lines[k].date,
                    lines[i].quote = lines[j].base,
                    lines[i].base = lines[k].base,
                    lines[j].quote = lines[k].quote,
                    lines[i].online # NoRate, lines[j].online # NoRate,
                    lines[k].online # NoRate
             PROVE  lines[i].online.n * lines[j].online.n * lines[k].online.d
                       = lines[i].online.d * lines[j].online.d * lines[k].online.n
  BY DEF ReferencesAgree
<1> DEFINE rate(c) == EurRate(cache[lines[i].date].rates, c)
           a == lines[i].base
           b == lines[i].quote
           c == lines[k].quote
<1>1. \/ a = b /\ lines[i].online = [n |-> 1, d |-> 1]
      \/ /\ a # b /\ rate(a) \in Nat /\ rate(b) \in Nat
         /\ lines[i].online = [n |-> rate(b), d |-> rate(a)]
  BY LineRatio DEF IInv
<1>2. \/ b = c /\ lines[j].online = [n |-> 1, d |-> 1]
      \/ /\ b # c /\ rate(b) \in Nat /\ rate(c) \in Nat
         /\ lines[j].online = [n |-> rate(c), d |-> rate(b)]
  BY LineRatio DEF IInv
<1>3. \/ a = c /\ lines[k].online = [n |-> 1, d |-> 1]
      \/ /\ a # c /\ rate(a) \in Nat /\ rate(c) \in Nat
         /\ lines[k].online = [n |-> rate(c), d |-> rate(a)]
  BY LineRatio DEF IInv
<1> HIDE DEF rate, a, b, c
<1>4. CASE a = b
  <2>1. CASE b = c
    BY <1>1, <1>2, <1>3, <1>4, <2>1
  <2>2. CASE b # c
    BY <1>1, <1>2, <1>3, <1>4, <2>2
  <2> QED  BY <2>1, <2>2
<1>5. CASE a # b /\ b = c
  BY <1>1, <1>2, <1>3, <1>5
<1>6. CASE a # b /\ b # c /\ a = c
  BY <1>1, <1>2, <1>3, <1>6
<1>7. CASE a # b /\ b # c /\ a # c
  <2>1. /\ rate(a) \in Nat /\ rate(b) \in Nat /\ rate(c) \in Nat
        /\ lines[i].online = [n |-> rate(b), d |-> rate(a)]
        /\ lines[j].online = [n |-> rate(c), d |-> rate(b)]
        /\ lines[k].online = [n |-> rate(c), d |-> rate(a)]
    BY <1>1, <1>2, <1>3, <1>7
  <2>2. rate(b) * rate(c) * rate(a) = rate(a) * rate(b) * rate(c)
    BY <2>1, ProductCommutes
  <2> QED  BY <2>1, <2>2
<1> QED  BY <1>4, <1>5, <1>6, <1>7

LEMMA WholeReport == IInv => ReportIsWhole
<1> SUFFICES ASSUME IInv, exit = 0, flags.limit <= MaxInt32
             PROVE  \E table \in Tables :
                       \E pick \in Picks(flags, table, flags.limit) :
                          LET rows == RowsAt(table, pick)
                          IN  /\ report.fresh <=> rows # <<>>
                              /\ Len(report.lines) = Len(rows)
                              /\ \A i \in DOMAIN rows :
                                    /\ report.lines[i].date = rows[i].date
                                    /\ report.lines[i].base = rows[i].base
                                    /\ report.lines[i].quote = rows[i].quote
  BY DEF ReportIsWhole
<1>1. Int32(flags.limit) = flags.limit
  BY ValidateAssumption, Int32Fits DEF IInv, TypeOK
<1>2. pc = "over"
  BY DEF IInv, TypeOK, NoDay
<1>3. PICK table \in Tables :
         \E pick \in Picks(flags, table, Int32(flags.limit)) :
            selected = RowsAt(table, pick)
  BY <1>2 DEF IInv, SelectedOK
<1>4. PICK pick \in Picks(flags, table, flags.limit) :
         selected = RowsAt(table, pick)
  BY <1>1, <1>3
<1>5. \/ selected = <<>> /\ report = Earlier
      \/ /\ selected # <<>> /\ Len(lines) = Len(selected)
         /\ report = [fresh |-> TRUE, lines |-> lines]
  BY DEF IInv, ReportOK
<1>6. \A i \in DOMAIN lines : /\ lines[i].date = selected[i].date
                              /\ lines[i].base = selected[i].base
                              /\ lines[i].quote = selected[i].quote
  BY DEF IInv, LinesOK, Result
<1>7. /\ report.fresh <=> selected # <<>>
      /\ Len(report.lines) = Len(selected)
      /\ \A i \in DOMAIN selected :
            /\ report.lines[i].date = selected[i].date
            /\ report.lines[i].base = selected[i].base
            /\ report.lines[i].quote = selected[i].quote
  <2>1. CASE selected = <<>>
    BY <1>5, <2>1 DEF Earlier
  <2>2. CASE selected # <<>>
    <3>1. DOMAIN selected = DOMAIN lines
      BY <2>2, <1>5 DEF IInv, Sequenced
    <3> QED  BY <3>1, <2>2, <1>5, <1>6
  <2> QED  BY <2>1, <2>2
<1> QED  BY <1>4, <1>7

-----------------------------------------------------------------------------
(* Every variable keeps its type: in particular a reading never takes a    *)
(* day after the record's (snapshotForDate).                               *)
THEOREM TypeCorrect == Spec => []TypeOK
BY Invariant, PTL DEF IInv

(* A report of a run that succeeds has one line for each stored rate the   *)
(* filters select, in order, up to a limit that fits int32 (main).         *)
THEOREM ReportsAreWhole == Spec => []ReportIsWhole
BY Invariant, WholeReport, PTL

(* A run that fails before it has every verdict leaves the earlier report  *)
(* as it was (main).                                                       *)
THEOREM EarlierReportsKept == Spec => []EarlierReportKept
<1>1. IInv => EarlierReportKept
  BY DEF IInv, ReportOK, EarlierReportKept, Sequenced
<1> QED  BY <1>1, Invariant, PTL

(* A verdict rests on the rates of one day, the last that the answer for   *)
(* the record's day lists, in whatever order it lists its items            *)
(* (snapshotForDate, crossRate, classify).                                 *)
THEOREM VerdictsFromOneDay == Spec => []VerdictFromOneDay
BY Invariant, OneDay, PTL

(* The references of one day multiply up, whatever the reference publishes *)
(* between the requests (the cache of snapshotForDate).                    *)
THEOREM ReferencesOfADayAgree == Spec => []ReferencesAgree
BY Invariant, Agreement, PTL
=============================================================================
