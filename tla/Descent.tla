------------------------------ MODULE Descent -------------------------------
(***************************************************************************)
(* An order on triples of naturals, by the first that differs: what is     *)
(* left to do goes down in it, although a later part of it may grow when   *)
(* an earlier one shrinks.                                                 *)
(***************************************************************************)
EXTENDS Naturals

Triples == Nat \X (Nat \X Nat)

Below(a, b) ==
    \/ a[1] < b[1]
    \/ a[1] = b[1] /\ a[2][1] < b[2][1]
    \/ a[1] = b[1] /\ a[2][1] = b[2][1] /\ a[2][2] < b[2][2]
=============================================================================
