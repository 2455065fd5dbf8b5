----------------------------- MODULE MCValidate -----------------------------
(***************************************************************************)
(* A small instance of Validate for TLC: two currencies and the euro,      *)
(* three days, one of them without a publication in some references, and   *)
(* int32 of three bits.  The ECB adapter stores rates of EUR alone; the    *)
(* validator takes any pair, and the table has one of usd to xdr.          *)
(***************************************************************************)
EXTENDS Validate

CONSTANTS usd, xdr

MCCurrencies == {Eur, usd, xdr}

Stored(d, b, q, n, m) ==
    [date |-> d, base |-> b, quote |-> q, rate |-> [n |-> n, d |-> m]]

Item(d, b, q, n) == [date |-> d, base |-> b, quote |-> q, rate |-> n]

MCTables ==
    {<<Stored(1, Eur, usd, 1000, 1), Stored(1, Eur, xdr, 2000, 1),
       Stored(1, usd, xdr, 2, 1), Stored(2, Eur, usd, 1000, 1)>>,
     <<Stored(1, xdr, Eur, 1, 2000), Stored(2, Eur, Eur, 1, 1)>>}

Day0 == {Item(0, Eur, usd, 1000), Item(0, Eur, xdr, 2000)}

MCReferences ==
    {Day0,
     Day0 \cup {Item(1, Eur, usd, 1001)},
     Day0 \cup {Item(1, Eur, usd, 1002), Item(1, Eur, xdr, 2100)},
     {Item(1, Eur, usd, 0), Item(1, Eur, xdr, 2000), Item(1, usd, xdr, 3)},
     {Item(1, Eur, usd, 1000), Item(1, Eur, xdr, 2000), Item(2, Eur, usd, 1011)}}

MCFlags ==
    [from : {NotGiven}, to : {NotGiven, 1}, base : {NotGiven}, quote : {NotGiven}, limit : {1, 3, 5, 8}]
      \cup [from : {2}, to : {NotGiven}, base : {NotGiven, Eur}, quote : {usd}, limit : {3}]
=============================================================================
