----------------------------- MODULE EcbStream -----------------------------
(***************************************************************************)
(* How one window is fetched from the ECB: the request, the answer read    *)
(* line by line under a cap (internal/provider/adapters/ecb.go), and the   *)
(* retries of FetchEachObserved around it.                                 *)
(*                                                                         *)
(* The upstream is not trusted: it may send any lines, stop in the middle  *)
(* of one, or never stop.  Backfill takes for granted that a fetch either  *)
(* fails or answers with the whole window; this module shows why.          *)
(*                                                                         *)
(* A line is of one of a few kinds and has a size.  "header" is the line   *)
(* with the column names, "row" one that makes a record under it, "other"  *)
(* one that parses and makes none, "blank" one that does not parse, "long" *)
(* one beyond the scanner's limit.                                         *)
(***************************************************************************)
EXTENDS Integers, Sequences, Descent

CONSTANTS
    Size,        \* the size of a line of each kind
    MaxLine,     \* maxECBLineBytes: a line and its newline must fit
    DefaultCap,  \* defaultECBMaxResponseBytes
    MaxInt,      \* the largest int64
    Overrides,   \* values of ECB_MAX_RESPONSE_BYTES; 0: unset or not a positive number
    MaxRetries

Kinds == {"header", "row", "other", "blank", "long"}

ASSUME StreamAssumption ==
    /\ Size \in [Kinds -> Nat \ {0}]
    /\ MaxLine \in Nat /\ DefaultCap \in Nat \ {0} /\ MaxRetries \in Nat
    /\ MaxInt \in Nat /\ DefaultCap < MaxInt
    /\ Overrides \subseteq 0..MaxInt
    /\ \A k \in Kinds : Size[k] > MaxLine <=> k = "long"

VARIABLES
    override,    \* ECB_MAX_RESPONSE_BYTES
    phase,       \* where FetchEachObserved is with the window
    retries,
    budget,      \* bytes the LimitedReader still lets through
    headers,     \* none yet, the ECB's, or those of something else
    records,     \* the records parsed from this answer
    rows,        \* history: the usable rows the upstream has sent in this answer
    sent,        \* history: the bytes of this answer so far
    err          \* why the window failed

vars == <<override, phase, retries, budget, headers, records, rows, sent, err>>

Cap == IF override > 0 THEN override ELSE DefaultCap

(* Faulty variant: a sum is as wide as it needs to be.                     *)
WrapNever(n) == n

(* A sum of two int64.                                                     *)
Wrap(n) == IF n > MaxInt THEN n - 2 * (MaxInt + 1) ELSE n

(* Faulty variant: an answer of exactly Cap bytes looks like a longer one. *)
BudgetWithoutSpare == Cap

Budget == Wrap(Cap + 1)

TransientErrors == {"http_5xx", "reset", "timeout"}
RequestErrors   == {"http_4xx", "refused", "http_5xx", "reset", "timeout"}
BodyErrors      == {"unexpected_eof", "reset", "timeout"}

Init ==
    /\ override \in Overrides
    /\ phase = "request"
    /\ retries = 0
    /\ budget = 0
    /\ headers = "none"
    /\ records = <<>>
    /\ rows = <<>>
    /\ sent = 0
    /\ err = "none"

-----------------------------------------------------------------------------
(* Faulty variant: the retries are not counted.                            *)
AttemptFailsUncounted(e) ==
    /\ IF e \in TransientErrors
       THEN phase' = "request" /\ UNCHANGED <<retries, err>>
       ELSE phase' = "failed" /\ err' = e /\ UNCHANGED retries

(* The window's attempt failed with e.                                     *)
AttemptFails(e) ==
    /\ IF e \in TransientErrors /\ retries < MaxRetries
       THEN phase' = "request" /\ retries' = retries + 1 /\ UNCHANGED err
       ELSE phase' = "failed" /\ err' = e /\ UNCHANGED retries

(* Faulty variant: the records of the failed attempt are kept.             *)
AnsweredKeeping ==
    /\ phase = "request"
    /\ phase' = "reading"
    /\ budget' = Budget
    /\ headers' = "none"
    /\ rows' = <<>>
    /\ sent' = 0
    /\ UNCHANGED <<override, retries, records, err>>

(* Get returns with status 200: a new answer begins.                       *)
Answered ==
    /\ phase = "request"
    /\ phase' = "reading"
    /\ budget' = Budget
    /\ headers' = "none"
    /\ records' = <<>>
    /\ rows' = <<>>
    /\ sent' = 0
    /\ UNCHANGED <<override, retries, err>>

(* Get fails, or the status is another one, a redirect's included.         *)
RequestFails ==
    /\ phase = "request"
    /\ \E e \in RequestErrors : AttemptFails(e)
    /\ UNCHANGED <<override, budget, headers, records, rows, sent>>

-----------------------------------------------------------------------------
(* What a whole line does: the first one that parses gives the headers.    *)
Parse(kind, row) ==
    /\ headers' = IF headers # "none" \/ kind = "blank" THEN headers
                  ELSE IF kind = "header" THEN "ecb" ELSE "foreign"
    /\ records' = IF headers = "ecb" /\ kind = "row" THEN Append(records, row)
                  ELSE records

(* What is left of a line when the bytes end within it is a line for the   *)
(* scanner, and may make a record with a number cut short.                 *)
ParseCut ==
    /\ records' \in {records} \cup
          (IF headers = "ecb" THEN {Append(records, <<"cut", retries>>)} ELSE {})
    /\ UNCHANGED headers

ReadLine ==
    /\ phase = "reading"
    /\ \E kind \in Kinds \ {"long"} :
          LET row == <<"row", retries>>
          IN  /\ Size[kind] <= budget
              /\ budget' = budget - Size[kind]
              /\ sent' = sent + Size[kind]
              /\ Parse(kind, row)
              /\ rows' = IF kind = "row" THEN Append(rows, row) ELSE rows
    /\ UNCHANGED <<override, phase, retries, err>>

(* bufio.ErrTooLong: the buffer is full, and there is no newline in it.    *)
LineTooLong ==
    /\ phase = "reading"
    /\ MaxLine <= budget
    /\ sent' = sent + Size["long"]
    /\ AttemptFails("line_too_long")
    /\ UNCHANGED <<override, budget, headers, records, rows>>

(* The upstream sends more than the budget: the reader reports the end of  *)
(* the body, and N <= 0 tells.                                             *)
HitCap ==
    /\ phase = "reading"
    /\ \E kind \in Kinds :
          /\ Size[kind] > budget /\ budget < MaxLine
          /\ sent' = sent + Size[kind]
    /\ budget' = IF budget > 0 THEN 0 ELSE budget
    /\ IF budget > 0 THEN ParseCut ELSE UNCHANGED <<headers, records>>
    /\ AttemptFails("too_large")
    /\ UNCHANGED <<override, rows>>

(* The body ends.                                                          *)
EndOfBody ==
    /\ phase = "reading"
    /\ IF budget <= 0 THEN AttemptFails("too_large")
                      ELSE phase' = "delivered" /\ UNCHANGED <<retries, err>>
    /\ UNCHANGED <<override, budget, headers, records, rows, sent>>

(* Faulty variant: scanner.Err is not asked.                               *)
BodyBreaksUnnoticed ==
    /\ phase = "reading"
    /\ budget > 0
    /\ records' = records
    /\ phase' = "delivered"
    /\ \E more \in {<<>>, <<<<"row", retries>>>>} : rows' = rows \o more
    /\ UNCHANGED <<override, retries, budget, headers, sent, err>>

(* The connection breaks, or the client's timeout strikes, before the end. *)
(* What was parsed comes back with the error and is dropped.               *)
BodyBreaks ==
    /\ phase = "reading"
    /\ budget > 0
    /\ ParseCut
    /\ \E e \in BodyErrors : AttemptFails(e)
    /\ UNCHANGED <<override, budget, rows, sent>>

-----------------------------------------------------------------------------
Attempt ==
    \/ Answered \/ RequestFails
    \/ ReadLine \/ LineTooLong \/ HitCap \/ EndOfBody \/ BodyBreaks

(* The caller goes on with the records, or ends.                           *)
Over == phase \in {"delivered", "failed"} /\ UNCHANGED vars

Next == Attempt \/ Over

(* An attempt goes on: the HTTP client's timeout ends a wait, and the      *)
(* back-off is a timer.                                                    *)
Spec == Init /\ [][Next]_vars /\ WF_vars(Attempt)

-----------------------------------------------------------------------------
TypeOK ==
    /\ override \in Overrides
    /\ phase \in {"request", "reading", "delivered", "failed"}
    /\ retries \in 0..MaxRetries
    /\ budget \in -(MaxInt + 1)..MaxInt
    /\ headers \in {"none", "ecb", "foreign"}
    /\ records \in Seq({"row", "cut"} \X (0..MaxRetries))
    /\ rows \in Seq({"row"} \X (0..MaxRetries))
    /\ sent \in Nat
    /\ err \in RequestErrors \cup BodyErrors \cup {"none", "line_too_long", "too_large"}

(* What is delivered is the whole answer of one attempt: every usable row  *)
(* the upstream sent, in order, none of an earlier attempt, none cut short *)
(* by the cap or by a connection that broke (parseECBStream,               *)
(* FetchEachObserved).                                                     *)
DeliveredIsWholeAnswer ==
    phase = "delivered" =>
        /\ headers = "ecb" => records = rows
        /\ headers # "ecb" => records = <<>>

(* The cap is exact: an answer of Cap bytes passes, one byte more does     *)
(* not, and no other answer is turned away for its size (ecbResponseCap,   *)
(* limited.N).  A cap of MaxInt wraps and turns every answer away; it is   *)
(* left out here.                                                          *)
CapIsExact ==
    override # MaxInt =>
        /\ phase = "delivered" => sent <= Cap
        /\ err = "too_large" => sent > Cap

(* The fetch as its caller sees it.                                        *)
Contract ==
    INSTANCE FetchContract
    WITH Records <- {"row"} \X (0..MaxRetries),
         answer  <- IF headers = "ecb" THEN rows ELSE <<>>,
         tries   <- retries,
         outcome <- IF phase \in {"delivered", "failed"} THEN phase ELSE "none",
         given   <- IF phase = "delivered" THEN records ELSE <<>>

(* For its caller a fetch is one step: it hands over a whole answer or     *)
(* nothing, after no more than MaxRetries new tries, and whatever failed   *)
(* attempts have parsed or cut short is never seen (Fetch, parseECBStream, *)
(* FetchEachObserved).                                                     *)
FetchIsAtomic == Contract!Spec

(* What a fetch still has ahead: retries, the request of this attempt, and *)
(* the bytes that the cap leaves.                                          *)
Ahead ==
    <<MaxRetries - retries,
      <<IF phase = "request" THEN 1 ELSE 0,
        IF phase = "reading" /\ budget > 0 THEN budget ELSE 0>>>>

(* A fetch only ever goes forward: each line uses up bytes of the cap, and *)
(* a new attempt a retry (io.LimitedReader, maxRetries).                   *)
LinesUseUp ==
    [][phase' \in {"request", "reading"} => Below(Ahead', Ahead)]_vars

(* Every fetch ends, even of an answer without end: the cap and the        *)
(* retries bound it (io.LimitedReader, maxRetries).                        *)
FetchEnds == <>(phase \in {"delivered", "failed"})
=============================================================================
