------------------------------ MODULE MCSetup ------------------------------
(***************************************************************************)
(* Two processes at a time for TLC, each of which may be any of the        *)
(* programs, again and again.                                              *)
(***************************************************************************)
EXTENDS Setup, TLC

CONSTANTS p1, p2

Symmetry == Permutations(Procs)
=============================================================================
