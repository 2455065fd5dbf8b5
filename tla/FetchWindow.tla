---------------------------- MODULE FetchWindow ----------------------------
(***************************************************************************)
(* The calendar arithmetic of a backfill run: where it starts and which    *)
(* window each upstream request covers (internal/scheduler/backfill.go and *)
(* internal/provider/adapter.go).  A date is a positive natural number of  *)
(* days; NoDate stands for a nil *time.Time and for the zero time.Time,    *)
(* which the code treats alike: "no lower (or upper) bound".               *)
(***************************************************************************)
EXTENDS Integers

NoDate == 0

(* The later of two optional dates; NoDate is earlier than every date.     *)
MaxDate(current, candidate) == IF candidate > current THEN candidate ELSE current

(* Where to resume: the newest stored date, or the provider's anchor.      *)
GetStartDate(coverageStart, lastSynced) ==
    IF lastSynced # NoDate THEN lastSynced ELSE coverageStart

(* Nothing is left to fetch once the start is today or later.              *)
IsUpToDate(after, today) == after # NoDate /\ after >= today

(* A daily_sync run never starts earlier than lookback days before today;  *)
(* a lookback of 0 switches the cap off.                                   *)
AdjustStartForMode(start, today, mode, lookback) ==
    IF mode = "daily_sync" /\ lookback > 0
    THEN MaxDate(start, today - lookback)
    ELSE start

(* The first day a request asks for: the day after the cursor.             *)
(* Faulty variant: ask for the cursor's own day again.                     *)
FetchAfterInclusive(cursor) == cursor
FetchAfter(cursor) == IF cursor = NoDate THEN NoDate ELSE cursor + 1

(* The last day of a request, NoDate for "whatever there is": the request  *)
(* is open ended when its window would reach today.                        *)
WindowUpto(after, today, range) ==
    LET last == after + range - 1
    IN  IF after # NoDate /\ range > 0 /\ last < today THEN last ELSE NoDate

(* Whether a date falls in the window a request asks for.                  *)
(* Faulty variant: a lower bound the upstream takes as exclusive.          *)
InWindowExclusive(date, after, upto) ==
    date > after /\ (upto # NoDate => date <= upto)
InWindow(date, after, upto) == date >= after /\ (upto # NoDate => date <= upto)
=============================================================================
