---------------------------- MODULE MCEcbStream ----------------------------
(***************************************************************************)
(* A small instance of EcbStream for TLC: lines of one to four bytes, of   *)
(* which three just fit, caps that fall on a line's end and within a line, *)
(* and int64 of four bits and a sign.                                      *)
(***************************************************************************)
EXTENDS EcbStream

MCSize == [header |-> 2, row |-> 3, other |-> 1, blank |-> 1, long |-> 4]
=============================================================================
