----------------------------- MODULE EcbProofs -----------------------------
(***************************************************************************)
(* Proofs about EcbStream, for every cap, width of int64, line size and    *)
(* number of retries: what is delivered is one whole answer, and the cap   *)
(* is exact.                                                               *)
(***************************************************************************)
EXTENDS EcbStream, TLAPS

(* What a parser under way has made of the lines sent so far.              *)
ParsedSoFar ==
    phase \in {"reading", "delivered"} =>
        /\ headers = "ecb" => records = rows
        /\ headers # "ecb" => records = <<>>
        /\ headers = "none" => rows = <<>>

(* The budget and the bytes sent add up to the cap and the spare byte,     *)
(* unless the sum overflowed, when no budget is left from the start.       *)
BudgetCounts ==
    /\ phase \in {"reading", "delivered"} =>
          IF override = MaxInt THEN budget < 0
                               ELSE budget >= 0 /\ budget + sent = Cap + 1
    /\ phase = "delivered" => budget > 0
    /\ err # "none" => phase = "failed"
    /\ err = "too_large" /\ override # MaxInt => sent > Cap

IInv == TypeOK /\ ParsedSoFar /\ BudgetCounts

-----------------------------------------------------------------------------
(* The cap is a positive int64 and the budget one more, or wraps.          *)
LEMMA BudgetType ==
    ASSUME override \in Overrides
    PROVE  /\ Cap \in 1..MaxInt
           /\ override = MaxInt => Budget = -(MaxInt + 1)
           /\ override # MaxInt => Budget = Cap + 1 /\ Budget <= MaxInt
BY StreamAssumption DEF Cap, Budget, Wrap

(* A failed attempt keeps the types and either asks again or gives up.     *)
LEMMA AttemptFailsType ==
    ASSUME TypeOK,
           NEW e \in RequestErrors \cup BodyErrors \cup {"line_too_long", "too_large"},
           AttemptFails(e)
    PROVE  /\ phase' \in {"request", "failed"}
           /\ retries' \in 0..MaxRetries
           /\ \/ phase' = "request" /\ err' = err
              \/ phase' = "failed" /\ err' = e
           /\ e \notin TransientErrors => phase' = "failed"
BY StreamAssumption DEF AttemptFails, TypeOK, TransientErrors

(* A cut line leaves the headers and at most one more record.              *)
LEMMA ParseCutType ==
    ASSUME TypeOK, ParseCut
    PROVE  /\ headers' = headers
           /\ records' \in Seq({"row", "cut"} \X (0..MaxRetries))
<1> DEFINE cut == <<"cut", retries>>
           Record == {"row", "cut"} \X (0..MaxRetries)
<1>1. cut \in Record /\ records \in Seq(Record)
  BY DEF TypeOK
<1>2. Append(records, cut) \in Seq(Record)
  <2> HIDE DEF cut, Record
  <2> QED  BY <1>1
<1>3. headers' = headers /\ (records' = records \/ records' = Append(records, cut))
  BY DEF ParseCut
<1> QED  BY <1>1, <1>2, <1>3

LEMMA InitInv == Init => IInv
<1> SUFFICES ASSUME Init PROVE IInv
  OBVIOUS
<1>1. TypeOK
  BY StreamAssumption DEF Init, TypeOK
<1>2. ParsedSoFar /\ BudgetCounts
  BY DEF Init, ParsedSoFar, BudgetCounts
<1> QED  BY <1>1, <1>2 DEF IInv

-----------------------------------------------------------------------------
LEMMA AnsweredInv ==
    ASSUME IInv, Answered
    PROVE  IInv'
<1> USE DEF IInv, Answered
<1>1. /\ Cap \in 1..MaxInt /\ Cap' = Cap
      /\ override = MaxInt => Budget = -(MaxInt + 1)
      /\ override # MaxInt => Budget = Cap + 1 /\ Budget <= MaxInt
  BY BudgetType DEF TypeOK, Cap
<1>2. TypeOK'
  <2>1. budget' \in -(MaxInt + 1)..MaxInt
    BY <1>1, StreamAssumption
  <2> QED  BY <2>1 DEF TypeOK
<1>3. ParsedSoFar'
  BY DEF ParsedSoFar
<1>4. BudgetCounts'
  BY <1>1, StreamAssumption DEF BudgetCounts
<1> QED  BY <1>2, <1>3, <1>4

LEMMA RequestFailsInv ==
    ASSUME IInv, RequestFails
    PROVE  IInv'
<1> USE DEF IInv
<1>1. PICK e \in RequestErrors : AttemptFails(e)
  BY DEF RequestFails
<1>2. /\ phase' \in {"request", "failed"}
      /\ retries' \in 0..MaxRetries
      /\ \/ phase' = "request" /\ err' = err
         \/ phase' = "failed" /\ err' = e
  BY <1>1, AttemptFailsType
<1>3. e # "too_large" /\ phase = "request"
      /\ UNCHANGED <<override, budget, headers, records, rows, sent>>
  BY DEF RequestErrors, RequestFails
<1>4. TypeOK'
  BY <1>2, <1>3 DEF TypeOK
<1>5. ParsedSoFar' /\ BudgetCounts'
  BY <1>2, <1>3 DEF ParsedSoFar, BudgetCounts, Cap
<1> QED  BY <1>4, <1>5

(* A failed attempt that leaves err alone, or does not blame the size.     *)
LEMMA ReadingFailsInv ==
    ASSUME IInv, phase = "reading",
           NEW e \in BodyErrors \cup {"line_too_long", "too_large"},
           AttemptFails(e),
           override' = override, rows' = rows,
           headers' = headers,
           records' \in Seq({"row", "cut"} \X (0..MaxRetries)),
           budget' \in -(MaxInt + 1)..MaxInt, sent' \in Nat,
           e = "too_large" /\ override # MaxInt => sent' > Cap
    PROVE  IInv'
<1> USE DEF IInv
<1>1. /\ phase' \in {"request", "failed"}
      /\ retries' \in 0..MaxRetries
      /\ \/ phase' = "request" /\ err' = err
         \/ phase' = "failed" /\ err' = e
  BY AttemptFailsType
<1>2. TypeOK'
  BY <1>1 DEF TypeOK
<1>3. ParsedSoFar'
  BY <1>1 DEF ParsedSoFar
<1>4. BudgetCounts'
  BY <1>1 DEF BudgetCounts, Cap
<1> QED  BY <1>2, <1>3, <1>4

LEMMA ReadLineInv ==
    ASSUME IInv, ReadLine
    PROVE  IInv'
<1> USE DEF IInv
<1> DEFINE row == <<"row", retries>>
<1>1. PICK kind \in Kinds \ {"long"} :
          /\ Size[kind] <= budget
          /\ budget' = budget - Size[kind]
          /\ sent' = sent + Size[kind]
          /\ Parse(kind, row)
          /\ rows' = IF kind = "row" THEN Append(rows, row) ELSE rows
  BY DEF ReadLine
<1>2. phase = "reading" /\ UNCHANGED <<override, phase, retries, err>>
  BY DEF ReadLine
<1>3. Size[kind] \in Nat \ {0}
  BY <1>1, StreamAssumption
<1>4. row \in {"row"} \X (0..MaxRetries) /\ row \in {"row", "cut"} \X (0..MaxRetries)
  BY DEF TypeOK
<1>5. TypeOK'
  <2>1. budget' \in -(MaxInt + 1)..MaxInt /\ sent' \in Nat
    <3>1. /\ MaxInt \in Nat /\ budget \in Int /\ sent \in Nat /\ Size[kind] \in Nat
          /\ budget <= MaxInt
      BY <1>3, StreamAssumption DEF TypeOK
    <3> QED  BY <1>1, <3>1
  <2>2. rows' \in Seq({"row"} \X (0..MaxRetries))
    BY <1>1, <1>4 DEF TypeOK
  <2>3. /\ records' \in Seq({"row", "cut"} \X (0..MaxRetries))
        /\ headers' \in {"none", "ecb", "foreign"}
    BY <1>1, <1>4 DEF TypeOK, Parse
  <2> QED  BY <1>2, <2>1, <2>2, <2>3 DEF TypeOK
<1>6. ParsedSoFar'
  BY <1>1, <1>2 DEF ParsedSoFar, Parse, TypeOK
<1>7. BudgetCounts'
  <2>1. /\ MaxInt \in Nat /\ budget \in Int /\ sent \in Nat /\ Size[kind] \in Nat
        /\ Cap \in Nat /\ Cap' = Cap
    BY <1>2, <1>3, BudgetType, StreamAssumption DEF TypeOK, Cap
  <2>2. override # MaxInt /\ budget >= 0 /\ budget + sent = Cap + 1
    BY <1>1, <1>2, <2>1 DEF BudgetCounts
  <2>3. budget' >= 0 /\ budget' + sent' = Cap' + 1
    BY <1>1, <2>1, <2>2
  <2>4. err = "none" /\ override' # MaxInt /\ phase' = "reading" /\ err' = "none"
    BY <1>2, <2>2 DEF BudgetCounts
  <2> QED  BY <2>3, <2>4 DEF BudgetCounts
<1> QED  BY <1>5, <1>6, <1>7

LEMMA LineTooLongInv ==
    ASSUME IInv, LineTooLong
    PROVE  IInv'
<1>1. sent' \in Nat
  BY StreamAssumption DEF LineTooLong, IInv, TypeOK, Kinds
<1> QED  BY <1>1, ReadingFailsInv DEF LineTooLong, IInv, TypeOK

LEMMA HitCapInv ==
    ASSUME IInv, HitCap
    PROVE  IInv'
<1>1. PICK kind \in Kinds : Size[kind] > budget /\ sent' = sent + Size[kind]
  BY DEF HitCap
<1>2. sent' \in Nat
  BY <1>1, StreamAssumption DEF IInv, TypeOK
<1>3. override # MaxInt => sent' > Cap
  BY <1>1, BudgetType, StreamAssumption DEF IInv, BudgetCounts, TypeOK, HitCap
<1>4. budget' \in -(MaxInt + 1)..MaxInt
  BY StreamAssumption DEF HitCap, IInv, TypeOK
<1>5. headers' = headers /\ records' \in Seq({"row", "cut"} \X (0..MaxRetries))
  BY ParseCutType DEF HitCap, IInv, TypeOK
<1> QED  BY <1>2, <1>3, <1>4, <1>5, ReadingFailsInv DEF HitCap

LEMMA EndOfBodyInv ==
    ASSUME IInv, EndOfBody
    PROVE  IInv'
<1> USE DEF IInv
<1>1. phase = "reading" /\ UNCHANGED <<override, budget, headers, records, rows, sent>>
  BY DEF EndOfBody
<1>2. CASE budget <= 0
  <2>1. AttemptFails("too_large")
    BY <1>2 DEF EndOfBody
  <2>2. override # MaxInt => sent' > Cap
    BY <1>1, <1>2, BudgetType DEF BudgetCounts, TypeOK
  <2> QED  BY <1>1, <2>1, <2>2, ReadingFailsInv DEF TypeOK
<1>3. CASE ~ (budget <= 0)
  <2>1. phase' = "delivered" /\ UNCHANGED <<retries, err>>
    BY <1>3 DEF EndOfBody
  <2>2. TypeOK'
    BY <1>1, <2>1 DEF TypeOK
  <2>3. ParsedSoFar'
    BY <1>1, <2>1 DEF ParsedSoFar
  <2>4. BudgetCounts'
    BY <1>1, <1>3, <2>1, StreamAssumption DEF BudgetCounts, TypeOK, Cap
  <2> QED  BY <2>2, <2>3, <2>4
<1> QED  BY <1>2, <1>3

LEMMA BodyBreaksInv ==
    ASSUME IInv, BodyBreaks
    PROVE  IInv'
<1>1. PICK e \in BodyErrors : AttemptFails(e)
  BY DEF BodyBreaks
<1>2. e # "too_large"
  BY DEF BodyErrors
<1>3. headers' = headers /\ records' \in Seq({"row", "cut"} \X (0..MaxRetries))
  BY ParseCutType DEF BodyBreaks, IInv
<1> QED  BY <1>1, <1>2, <1>3, ReadingFailsInv DEF BodyBreaks, IInv, TypeOK

-----------------------------------------------------------------------------
LEMMA StepInv == IInv /\ [Next]_vars => IInv'
<1> SUFFICES ASSUME IInv, [Next]_vars PROVE IInv'
  OBVIOUS
<1>1. CASE Attempt
  BY <1>1, AnsweredInv, RequestFailsInv, ReadLineInv, LineTooLongInv,
     HitCapInv, EndOfBodyInv, BodyBreaksInv DEF Attempt
<1>2. CASE UNCHANGED vars
  BY <1>2 DEF vars, IInv, TypeOK, ParsedSoFar, BudgetCounts, Cap
<1> QED  BY <1>1, <1>2 DEF Next, Over

(* What holds of every fetch at every step, whatever the upstream sends.   *)
THEOREM Invariance == Spec => []IInv
<1> QED  BY InitInv, StepInv, PTL DEF Spec

(* The types hold for any cap, line sizes and number of retries.           *)
THEOREM TypeCorrect == Spec => []TypeOK
<1>1. IInv => TypeOK
  BY DEF IInv
<1> QED  BY <1>1, Invariance, PTL

(* A fetch delivers the whole answer of one attempt: all the usable rows   *)
(* of it, in order, and nothing of an attempt that failed                  *)
(* (parseECBStream, FetchEachObserved).                                    *)
THEOREM WholeAnswers == Spec => []DeliveredIsWholeAnswer
<1>1. IInv => DeliveredIsWholeAnswer
  BY DEF IInv, ParsedSoFar, DeliveredIsWholeAnswer
<1> QED  BY <1>1, Invariance, PTL

(* For every cap below the largest int64, an answer of that many bytes     *)
(* passes and a longer one does not (ecbResponseCap, limited.N).           *)
THEOREM ExactCap == Spec => []CapIsExact
<1>1. IInv => CapIsExact
  <2> SUFFICES ASSUME IInv, override # MaxInt
               PROVE  /\ phase = "delivered" => sent <= Cap
                      /\ err = "too_large" => sent > Cap
    BY DEF CapIsExact
  <2>1. Cap \in 1..MaxInt /\ sent \in Nat /\ budget \in Int
    BY BudgetType DEF IInv, TypeOK
  <2> QED  BY <2>1 DEF IInv, BudgetCounts
<1> QED  BY <1>1, Invariance, PTL

(* With a cap of the largest int64 the budget wraps and nothing is ever    *)
(* delivered, not even an empty answer (parseECBStream).                   *)
THEOREM LargestCapDeliversNothing ==
    Spec => [](override = MaxInt => phase # "delivered")
<1>1. IInv => (override = MaxInt => phase # "delivered")
  BY StreamAssumption DEF IInv, BudgetCounts, TypeOK
<1> QED  BY <1>1, Invariance, PTL

-----------------------------------------------------------------------------
(* The refinement of the contract.                                         *)

(* A failed attempt is a new try or the end, and gives nothing.            *)
LEMMA AttemptFailsContract ==
    ASSUME IInv, phase \in {"request", "reading"}, NEW e, AttemptFails(e),
           UNCHANGED <<headers, rows>>
    PROVE  Contract!Next
<1>1. /\ headers' = headers /\ rows' = rows
      /\ \/ phase' = "request" /\ retries < MaxRetries /\ retries' = retries + 1
         \/ phase' = "failed" /\ retries' = retries
  BY DEF AttemptFails
<1>2. CASE phase' = "request"
  BY <1>1, <1>2 DEF Contract!Next, Contract!Retry
<1>3. CASE phase' = "failed"
  BY <1>1, <1>3 DEF Contract!Next, Contract!GiveUp
<1> QED  BY <1>1, <1>2, <1>3

LEMMA ReadLineContract ==
    ASSUME IInv, ReadLine
    PROVE  Contract!Next \/ UNCHANGED Contract!vars
<1> DEFINE row == <<"row", retries>>
           shown == IF headers = "ecb" THEN rows ELSE <<>>
<1>1. PICK kind \in Kinds \ {"long"} :
          /\ Parse(kind, row)
          /\ rows' = IF kind = "row" THEN Append(rows, row) ELSE rows
  BY DEF ReadLine
<1>2. phase = "reading" /\ phase' = phase /\ retries' = retries
  BY DEF ReadLine
<1>3. row \in {"row"} \X (0..MaxRetries)
  BY DEF IInv, TypeOK
<1>4. \/ shown' = shown \/ shown' = <<>>
      \/ shown' = Append(shown, row)
  <2>1. headers = "none" => rows = <<>>
    BY <1>2 DEF IInv, ParsedSoFar
  <2>2. headers \in {"none", "ecb", "foreign"}
    BY DEF IInv, TypeOK
  <2> HIDE DEF row
  <2> QED  BY <1>1, <2>1, <2>2 DEF Parse
<1>5. CASE shown' = shown
  BY <1>2, <1>5 DEF Contract!vars
<1>6. CASE shown' = <<>> \/ shown' = Append(shown, row)
  BY <1>2, <1>3, <1>6 DEF Contract!Next, Contract!Send
<1> QED  BY <1>4, <1>5, <1>6

LEMMA ContractStep == IInv /\ [Next]_vars => [Contract!Next]_Contract!vars
<1> SUFFICES ASSUME IInv, [Next]_vars
             PROVE  Contract!Next \/ UNCHANGED Contract!vars
  OBVIOUS
<1>1. CASE UNCHANGED vars
  BY <1>1 DEF vars, Contract!vars
<1>2. CASE Answered
  BY <1>2 DEF Answered, Contract!Next, Contract!Send
<1>3. CASE ReadLine
  BY <1>3, ReadLineContract
<1>4. CASE RequestFails \/ LineTooLong \/ BodyBreaks
  BY <1>4, AttemptFailsContract
     DEF RequestFails, LineTooLong, BodyBreaks, ParseCut
<1>5. CASE HitCap
  BY <1>5, AttemptFailsContract DEF HitCap, ParseCut
<1>6. CASE EndOfBody
  <2>1. CASE budget <= 0
    BY <1>6, <2>1, AttemptFailsContract DEF EndOfBody
  <2>2. CASE ~ (budget <= 0)
    <3>1. /\ phase = "reading" /\ phase' = "delivered"
          /\ UNCHANGED <<retries, headers, records, rows>>
      BY <1>6, <2>2 DEF EndOfBody
    <3>2. records = IF headers = "ecb" THEN rows ELSE <<>>
      BY <3>1 DEF IInv, ParsedSoFar
    <3> QED  BY <3>1, <3>2 DEF Contract!Next, Contract!Deliver
  <2> QED  BY <2>1, <2>2
<1> QED  BY <1>1, <1>2, <1>3, <1>4, <1>5, <1>6 DEF Next, Attempt, Over

LEMMA ContractInit == Init => Contract!Init
BY DEF Init, Contract!Init

(* However the upstream's answers break, overflow or never end, a fetch is *)
(* one step for its caller: a whole answer or nothing, after no more than  *)
(* MaxRetries new tries (FetchEachObserved, Fetch, parseECBStream).        *)
THEOREM Refinement == Spec => FetchIsAtomic
<1> QED  BY ContractInit, ContractStep, Invariance, PTL
         DEF Spec, FetchIsAtomic, Contract!Spec

-----------------------------------------------------------------------------
(* What is left of a fetch is measured in naturals.                        *)
LEMMA AheadTyped == IInv => Ahead \in Triples
BY StreamAssumption DEF IInv, TypeOK, Ahead, Triples

(* Whatever the upstream sends, a fetch uses up bytes and retries that it  *)
(* never gets back (parseECBStream, FetchEachObserved).                    *)
THEOREM FetchGoesForward == Spec => LinesUseUp
<1>1. IInv /\ [Next]_vars =>
         [phase' \in {"request", "reading"} => Below(Ahead', Ahead)]_vars
  <2> SUFFICES ASSUME IInv, Next, phase' \in {"request", "reading"}
               PROVE  Below(Ahead', Ahead) \/ UNCHANGED vars
    OBVIOUS
  <2>1. /\ retries \in 0..MaxRetries /\ MaxRetries \in Nat
        /\ budget \in Int /\ \A k \in Kinds : Size[k] \in Nat \ {0}
    BY StreamAssumption DEF IInv, TypeOK
  <2>2. CASE Answered
    BY <2>1, <2>2 DEF Answered, Ahead, Below
  <2>3. CASE ReadLine
    <3>1. PICK kind \in Kinds : Size[kind] <= budget /\ budget' = budget - Size[kind]
      BY <2>3 DEF ReadLine
    <3> QED  BY <2>1, <2>3, <3>1 DEF ReadLine, Ahead, Below
  <2>4. ASSUME NEW e, AttemptFails(e) PROVE Below(Ahead', Ahead)
    <3>1. phase' = "request" /\ retries' = retries + 1
      BY <2>4 DEF AttemptFails
    <3> QED  BY <2>1, <3>1 DEF Ahead, Below
  <2>5. CASE RequestFails \/ LineTooLong \/ HitCap \/ EndOfBody \/ BodyBreaks
    BY <2>4, <2>5 DEF RequestFails, LineTooLong, HitCap, EndOfBody, BodyBreaks
  <2> QED  BY <2>2, <2>3, <2>5 DEF Next, Attempt, Over
<1> QED  BY <1>1, Invariance, PTL DEF Spec, LinesUseUp
=============================================================================
