----------------------------- MODULE RateLedger -----------------------------
(***************************************************************************)
(* What the job promises about the rates table, whatever the interleaving  *)
(* of its runs, their failures and their crashes: an append-only ledger of *)
(* published observations that is never extended past a hole.  There are   *)
(* two excuses for a missing observation: its date is on or before the     *)
(* provider's anchor (the anchor's own rates are never asked for), or it   *)
(* was given up by the daily_sync look-back cap.                           *)
(***************************************************************************)
EXTENDS RateRows

CONSTANT CoverageStart   \* the provider's anchor date, 0 when it has none

VARIABLES
    published,    \* usable observations the upstream currently shows
    capSkipped,   \* dates given up by the look-back cap
    rates         \* the rates table

vars == <<published, capSkipped, rates>>

(* No row is newer than a published observation that is missing, dates up  *)
(* to the anchor and the skipped ones aside.                               *)
NoSilentGap ==
    \A row \in rates : Covers(rates, published, CoverageStart, row.date, capSkipped)

Init == capSkipped = {} /\ rates = {}

(* The upstream adds later days and may restate rates of earlier ones.     *)
Release ==
    /\ \A o \in published : HasKey(published', o)
    /\ \A o \in published' : \/ HasKey(published, o)
                             \/ \A p \in published : p.date < o.date
    /\ UNCHANGED <<capSkipped, rates>>

(* Days are given up before anything is stored beyond them, never taken    *)
(* back.                                                                   *)
SkipDays ==
    /\ capSkipped \subseteq capSkipped'
    /\ UNCHANGED <<published, rates>>

(* New rows carry published keys the table lacked, at most one row a key,  *)
(* and leave no hole behind them; stored rows stay as they are.            *)
Append ==
    /\ rates \subseteq rates'
    /\ \A row \in rates' \ rates :
          /\ Storable(row)
          /\ HasKey(published, row)
          /\ ~ HasKey(rates, row)
          /\ \A other \in rates' \ rates : SameKey(row, other) => row = other
    /\ NoSilentGap'
    /\ UNCHANGED <<published, capSkipped>>

Next == Release \/ SkipDays \/ Append

Spec == Init /\ [][Next]_vars
=============================================================================
