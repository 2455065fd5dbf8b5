------------------------------ MODULE RateRows ------------------------------
(***************************************************************************)
(* Daily reference-rate observations.  Every observation is against EUR,   *)
(* so a row of the rates table is identified by its date and its quote     *)
(* currency: the primary key (provider, date, base, quote) of the schema   *)
(* with the single provider and base fixed.                                *)
(***************************************************************************)
EXTENDS Naturals

CONSTANTS
    Quotes,          \* quote currencies the upstream publishes
    ExcludedQuotes   \* currencies that are never stored (XDR)

ASSUME ExcludedQuotesAssumption == ExcludedQuotes \subseteq Quotes

(* A rate is a natural number; 0 stands for every value that is not a      *)
(* usable rate: absent, not positive, NaN or infinite.                     *)
Observation == [date : Nat, quote : Quotes, rate : Nat]

SameKey(a, b) == a.date = b.date /\ a.quote = b.quote

HasKey(rows, o) == \E row \in rows : SameKey(row, o)

(* What filterValidRecords lets through.                                   *)
Storable(o) == o.quote \notin ExcludedQuotes /\ o.rate > 0

(* Up to the day d, nothing published is missing from rows but the rates   *)
(* of the skipped days and of the days on or before the anchor: without a  *)
(* stored row the first request is for the day after it, so that the       *)
(* anchor's own rates are never fetched.                                   *)
Covers(rows, pub, anchor, d, skipped) ==
    \A o \in pub :
        (/\ Storable(o)
         /\ anchor < o.date /\ o.date <= d
         /\ o.date \notin skipped)
            => HasKey(rows, o)

(* The date d is the newest date in rows; 0 when rows is empty, as         *)
(* MAX(date) of an empty table is NULL.                                    *)
IsLatestDate(d, rows) ==
    /\ \A row \in rows : row.date <= d
    /\ IF rows = {} THEN d = 0 ELSE \E row \in rows : row.date = d
=============================================================================
