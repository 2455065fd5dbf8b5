--------------------------- MODULE FetchContract ----------------------------
(***************************************************************************)
(* What FetchEachObserved takes the fetch of one window for: the upstream  *)
(* sends an answer, which is either dropped for a new try, of which there  *)
(* are only so many, or handed over whole, once; a fetch that fails hands  *)
(* over nothing.  Backfill builds on this; EcbStream implements it.        *)
(***************************************************************************)
EXTENDS Naturals, Sequences

CONSTANTS
    MaxRetries,
    Records     \* what a row of an answer may become

VARIABLES
    answer,     \* the usable rows sent since the last try began
    tries,
    outcome,
    given       \* what the caller is given

vars == <<answer, tries, outcome, given>>

Init ==
    /\ answer = <<>>
    /\ tries = 0
    /\ outcome = "none"
    /\ given = <<>>

(* The upstream sends more of an answer, or begins another one.            *)
Send ==
    /\ outcome = "none"
    /\ \/ answer' = <<>>
       \/ \E rec \in Records : answer' = Append(answer, rec)
    /\ UNCHANGED <<tries, outcome, given>>

Retry ==
    /\ outcome = "none"
    /\ tries < MaxRetries
    /\ tries' = tries + 1
    /\ UNCHANGED <<answer, outcome, given>>

Deliver ==
    /\ outcome = "none"
    /\ outcome' = "delivered"
    /\ given' = answer
    /\ UNCHANGED <<answer, tries>>

GiveUp ==
    /\ outcome = "none"
    /\ outcome' = "failed"
    /\ UNCHANGED <<answer, tries, given>>

Next == Send \/ Retry \/ Deliver \/ GiveUp

Spec == Init /\ [][Next]_vars
=============================================================================
