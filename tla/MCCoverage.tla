----------------------------- MODULE MCCoverage -----------------------------
(***************************************************************************)
(* A small instance of Coverage for TLC, in which the runs are             *)
(* interchangeable.                                                        *)
(***************************************************************************)
EXTENDS Coverage, TLC

CONSTANTS r1, r2, eur, usd, gbp

Symmetry == Permutations(Runs)

On(days, q) == {[date |-> day, quote |-> q] : day \in days}

(* Both quotes every day, one of them on the second day only, and two that *)
(* take turns.                                                             *)
MCHistories ==
    { On({1, 2, 3}, usd) \cup On({1, 2, 3}, gbp),
      On({1, 2, 3}, usd) \cup On({2}, gbp),
      On({1, 3}, usd) \cup On({2, 3}, gbp) }
=============================================================================
